---- MODULE Spec2Model ----
(***************************************************************************)
(* The session pool of src/ass.js (first program variant, lines 1..1130):  *)
(* UltraBot (one session per bot: connect, actualConnect, setupListeners,  *)
(* attemptReconnect, disconnect), UltraCommandInterface.stopAll and the    *)
(* spawn scheduler main.spawnBot.                                          *)
(*                                                                         *)
(* Node runs every callback to completion on one thread, so each action    *)
(* below is one callback: a timer firing, a promise settling, an event of  *)
(* a transport, or a console line.  Timers are untimed: a pending timer    *)
(* may fire at any later step.                                             *)
(*                                                                         *)
(* The protocol client (mineflayer) and the SOCKS connector are external.  *)
(* A transport handle is modelled by the events it delivers to the         *)
(* listeners that setupListeners registers on it: 'login' at most once,    *)
(* 'kicked' at most once, 'error' any number of times, and 'end' once, as  *)
(* its last event.  A handle whose relay connect failed never owns a       *)
(* socket and delivers nothing.  Listeners stay registered on a handle     *)
(* after this.bot has been overwritten.                                    *)
(*                                                                         *)
(* Fourteen specifications share the variables:                            *)
(*   Spec        the session lifecycle, the spawn scheduler and stopAll;   *)
(*   SpecDeep    the same for one session with one more transport;         *)
(*   SpecPool    the same for a pool of several sessions with fewer        *)
(*               transports;                                               *)
(*   SpecChat    the pool with the console's broadcast and executeCommand; *)
(*   SpecMsg     one session with the 'message' listener;                  *)
(*   SpecVerify  main's proxy verification loop, up to the arming of the   *)
(*               first spawn timer;                                        *)
(*   SpecCollect fetchProxiesWithProgress, which collects the candidates;  *)
(*   SpecCalm    the pool in runs where every connect succeeds, with the   *)
(*               fairness of timers and promises;                          *)
(*   SpecConsole one session and the console's processCommand;             *)
(*   SpecMacro   one session and the console playing macros;               *)
(*   SpecIdentity one session whose name generateUsername draws;           *)
(*   SpecStorm   one session and a server that kicks every transport;      *)
(*   SpecRefused one session and a server that lets no transport log in,   *)
(*               with the fairness of timers and promises;                 *)
(*   SpecAttack  the pool of src/botattack.js (EnhancedBot, main.spawnBot, *)
(*               CommandInterface.stopAll), with the fairness of the spawn *)
(*               timer.                                                    *)
(*                                                                         *)
(* Left out: the SIGINT handler and exit(), which end the process; the     *)
(* spawn, health and physicsTick listeners, this.messages (a log read only *)
(* for its length) and commandHistory (never read); what the console's     *)
(* help, stats, list, info and clear commands print; logging and display.  *)
(***************************************************************************)
EXTENDS Integers, Sequences, FiniteSets, Bags, TLC

\* ---------------------------------------------------------------- bounds
MaxBots == 1            \* largest config.maxBots explored
MaxTransports == 2      \* transports created in a run, over all sessions
MaxProxies == 1         \* largest number of verified proxies explored
MaxChats == 1           \* console lines and inbound messages are taken while
                        \* fewer than this many chats have been emitted
MaxWords == 2           \* longest inbound message, in words
MaxCandidates == 5      \* largest number of proxy candidates explored
BatchSize == 2          \* const batchSize (100 in ass.js, 50 in botattack.js),
                        \* scaled down to the candidates explored
MaxSources == 2         \* urls.length (5 in ass.js), scaled down
MaxLines == 2           \* longest response body explored, in lines
MaxMacros == 1          \* executeMacro calls explored in a run

MaxPoolBots == MaxBots + 1              \* largest config.maxBots in SpecPool
MaxPoolTransports == MaxTransports - 1  \* transports created in a run of SpecPool
MaxDeepTransports == MaxTransports + 1  \* transports created in a run of SpecDeep
MaxMacroChats == MaxChats + 3           \* chats emitted in a run of SpecMacro
MaxStormTransports == MaxTransports + 6 \* transports created in a run of SpecStorm
MaxRefusedTransports == MaxTransports + 2 \* transports created in a run of SpecRefused

\* ------------------------------------------------------ program constants
maxReconnects == 3      \* this.maxReconnects
baseDelay == 5000       \* 5000 * this.reconnectAttempts
delayCeiling == 30000   \* Math.min(..., 30000)

VARIABLES
    isRunning,          \* let isRunning
    maxBots,            \* config.maxBots
    workingProxies,     \* workingProxies, fixed once spawning begins
    botIndex,           \* let botIndex (sessions created so far)
    spawnTimer,         \* a setTimeout(spawnBot, ...) is pending
    bots,               \* cmdInterface.bots: sequence of session indices
    proxy,              \* this.proxy per session (0 = null)
    connected,          \* this.connected per session
    reconnectAttempts,  \* this.reconnectAttempts per session
    bot,                \* this.bot per session: handle number, 0 = undefined
    handles,            \* per session: the handles createBot has returned
    pings,              \* per session: pingServer() promises not yet settled
    joinTimers,         \* per session: pending setTimeout(actualConnect, joinDelay)
    reconnectTimers,    \* per session: bag of the delays of pending reconnect timers
    stats,              \* const stats
    verify,             \* main's proxy verification loop (see NewVerify)
    macroTimers,        \* per executeMacro call: the steps whose timers are pending
    username            \* this.username per session ("" before its creation)

vars == <<isRunning, maxBots, workingProxies, botIndex, spawnTimer, bots, proxy,
          connected, reconnectAttempts, bot, handles, pings, joinTimers,
          reconnectTimers, stats, verify, macroTimers, username>>

Sessions == 1..MaxPoolBots
Created == 1..botIndex

Min(a, b) == IF a < b THEN a ELSE b

\* const stats = { sent: 0, joined: 0, ... }
StatsInit == [sent |-> 0, joined |-> 0, kicked |-> 0, timeout |-> 0, failed |-> 0,
              messagesSent |-> 0, commandsExecuted |-> 0, reconnects |-> 0,
              proxiesFound |-> 0, proxiesWorking |-> 0]

Inc(st, f) == [st EXCEPT ![f] = @ + 1]

Outcomes == {"joined", "kicked", "timeout", "failed"}

\* A handle returned by mineflayer.createBot.  st is the transport's phase:
\* "proxying" (options.connect pending), "connecting" (socket open, not
\* logged in), "active" (logged in), "nosocket" (options.connect failed),
\* "ended" ('end' delivered).  kicked: 'kicked' was delivered; quit: quit()
\* was called on it; cnt: the stats increments made by its own listeners;
\* out: the strings passed to its chat(), oldest first; capEnd: its 'end'
\* listener ran while reconnectAttempts was at maxReconnects; options: the
\* username and the proxy it was created with; logins: the number of
\* 'login' events its session had seen when it was created.
NewHandle(viaProxy, options, logins) ==
    [st |-> IF viaProxy THEN "proxying" ELSE "connecting",
     kicked |-> FALSE, quit |-> FALSE,
     cnt |-> [f \in Outcomes |-> 0],
     out |-> <<>>, capEnd |-> FALSE, options |-> options, logins |-> logins]

\* hd after one of its listeners has taken stats from st0 to st1
Credit(hd, st0, st1) ==
    [hd EXCEPT !.cnt = [f \in Outcomes |-> @[f] + st1[f] - st0[f]]]

HasSocket(hd) == hd.st \in {"connecting", "active"}
Live(hd) == hd.st # "ended"

\* --------------------------------------------- main: proxy verification

\* const proxyBatches: the number of slices of n candidates
NumBatches(n) == (n + BatchSize - 1) \div BatchSize

\* proxyBatches[b - 1], as the set of its candidates
Batch(all, b) ==
    {all[i] : i \in ((b - 1) * BatchSize + 1)..Min(b * BatchSize, Len(all))}

\* The verification loop of main.  program: whose loop it is ("ass" or
\* "botattack"); phase: "testing" inside the loop, "running" once it is left;
\* allProxies: the candidates, by number; batch: the number of the batch
\* under test (0: none started); pending: the candidates whose testProxy
\* promise has not settled; tests: how often each candidate's test was started.
NewVerify(program, n) ==
    [program |-> program, phase |-> "testing",
     allProxies |-> [i \in 1..n |-> i],
     batch |-> 0, pending |-> {}, tests |-> [c \in 1..n |-> 0]]

\* the loop of ass.js after a run in which every candidate in wp verified
Verified(wp) ==
    [program |-> "ass", phase |-> "running", allProxies |-> wp,
     batch |-> NumBatches(Len(wp)), pending |-> {},
     tests |-> [c \in 1..Len(wp) |-> 1]]

\* the number of verified proxies the loop asks for
WantCount == IF verify.program = "ass" THEN 2 * maxBots ELSE maxBots

\* the state main is in when it arms the first spawn timer
Init ==
    /\ isRunning = TRUE
    /\ maxBots \in 0..MaxBots
    /\ workingProxies \in {[i \in 1..k |-> i] : k \in 0..Min(MaxProxies, 2 * maxBots)}
    /\ verify = Verified(workingProxies)
    /\ botIndex = 0
    /\ spawnTimer = TRUE
    /\ bots = <<>>
    /\ proxy = [s \in Sessions |-> 0]
    /\ connected = [s \in Sessions |-> FALSE]
    /\ reconnectAttempts = [s \in Sessions |-> 0]
    /\ bot = [s \in Sessions |-> 0]
    /\ handles = [s \in Sessions |-> <<>>]
    /\ pings = [s \in Sessions |-> 0]
    /\ joinTimers = [s \in Sessions |-> 0]
    /\ reconnectTimers = [s \in Sessions |-> EmptyBag]
    /\ stats = StatsInit
    /\ macroTimers = <<>>
    /\ username = [s \in Sessions |-> ""]

\* ------------------------------------------------------------ UltraBot

AtReconnectCap_Never(ra) == FALSE

AtReconnectCap_OffByOne(ra) == ra > maxReconnects

\* attemptReconnect, line 559: the cap test
AtReconnectCap(ra) == ra >= maxReconnects

ReconnectDelay_Stale(ra) == Min(baseDelay * (ra - 1), delayCeiling)

\* attemptReconnect, line 567: the delay, from the incremented count
ReconnectDelay(ra) == Min(baseDelay * ra, delayCeiling)

attemptReconnect_Uncounted(ra, st, rt) ==
    IF AtReconnectCap(ra)
    THEN [ra |-> ra, st |-> st, rt |-> rt]
    ELSE [ra |-> ra + 1, st |-> st,
          rt |-> rt (+) SetToBag({ReconnectDelay(ra + 1)})]

\* attemptReconnect as a function of the fields it reads and writes:
\* ra = this.reconnectAttempts, st = stats, rt = this session's pending
\* reconnect timers.
attemptReconnect(ra, st, rt) ==
    IF AtReconnectCap(ra)
    THEN [ra |-> ra, st |-> st, rt |-> rt]
    ELSE [ra |-> ra + 1,
          st |-> Inc(st, "reconnects"),
          rt |-> rt (+) SetToBag({ReconnectDelay(ra + 1)})]

OnLoginAttempts_Kept(ra) == ra

\* 'login' listener: the fields it writes
OnLoginConnected == TRUE
OnLoginStats(st) == Inc(st, "joined")
OnLoginAttempts(ra) == 0

OnKickedStats_Leaves(st) == [Inc(st, "kicked") EXCEPT !.joined = @ - 1]

\* 'kicked' listener up to the attemptReconnect call
OnKickedStats(st) == Inc(st, "kicked")

OnEndStats_Uncounted(st) == st

\* 'end' listener up to the attemptReconnect call
OnEndStats(st) == Inc(st, "timeout")

\* options.connect's catch: stats.failed++
OnProxyFailStats(st) == Inc(st, "failed")

TotalHandles == LET RECURSIVE Sum(_)
                    Sum(n) == IF n = 0 THEN 0 ELSE Len(handles[n]) + Sum(n - 1)
                IN Sum(MaxPoolBots)

SetHandle(s, h, hd) == [handles EXCEPT ![s][h] = hd]

SetAttempts_Shared(s, ra) == [o \in Sessions |-> ra]

\* this.reconnectAttempts = ra, on session s
SetAttempts(s, ra) == [reconnectAttempts EXCEPT ![s] = ra]

\* connect(): pingServer() is started; nothing else happens in this turn
connect(s) == pings' = [pings EXCEPT ![s] = @ + 1]

Options_Regenerated(s) == [username |-> "Ghost2", proxy |-> proxy[s]]

\* actualConnect: const options = { username: this.username, ... } and the
\* relay taken from this.proxy
Options(s) == [username |-> username[s], proxy |-> proxy[s]]

\* the 'login' events delivered to session s so far
Logins(s) ==
    LET RECURSIVE Sum(_)
        Sum(n) == IF n = 0 THEN 0 ELSE handles[s][n].cnt["joined"] + Sum(n - 1)
    IN Sum(Len(handles[s]))

\* actualConnect(): createBot either returns a handle or throws
actualConnect(s, throws) ==
    IF throws
    THEN /\ stats' = Inc(stats, "failed")
         /\ UNCHANGED <<bot, handles>>
    ELSE /\ handles' = [handles EXCEPT ![s] = Append(@, NewHandle(proxy[s] # 0, Options(s), Logins(s)))]
         /\ bot' = [bot EXCEPT ![s] = Len(handles[s]) + 1]
         /\ stats' = Inc(stats, "sent")

ProxyFor_NoModulo(i) ==
    IF i < Len(workingProxies) THEN workingProxies[i + 1] ELSE 0

\* spawnBot: workingProxies[botIndex % workingProxies.length] || null
\* (with no proxies the index is NaN and the element undefined)
ProxyFor(i) ==
    LET k == Len(workingProxies)
    IN IF k = 0 THEN 0 ELSE workingProxies[(i % k) + 1]

SpawnStops_IgnoresRunning == botIndex >= maxBots

SpawnStops_NeedsProxy ==
    ~isRunning \/ botIndex >= maxBots \/ Len(workingProxies) = 0

\* spawnBot: if (!isRunning || botIndex >= config.maxBots) return
SpawnStops == ~isRunning \/ botIndex >= maxBots

SpawnRearm_Early(n) == n + 1 < maxBots

\* spawnBot: if (botIndex < config.maxBots) setTimeout(spawnBot, ...),
\* n being the incremented botIndex
SpawnRearm(n) == n < maxBots

NewIndex_First(i) == 1

\* spawnBot: index: botIndex + 1
NewIndex(i) == i + 1

\* new UltraBot({...}) with username: name, followed by
\* cmdInterface.bots.push(bot); botIndex++ and the re-arming of the spawn
\* timer
SpawnBotAs(name) ==
    /\ spawnTimer
    /\ ~SpawnStops
    /\ LET s == NewIndex(botIndex)
       IN /\ proxy' = [proxy EXCEPT ![s] = ProxyFor(botIndex)]
          /\ username' = [username EXCEPT ![s] = name]
          /\ connect(s)
          /\ bots' = Append(bots, s)
    /\ botIndex' = botIndex + 1
    /\ spawnTimer' = SpawnRearm(botIndex + 1)
    /\ UNCHANGED <<macroTimers, verify, isRunning, maxBots, workingProxies, connected,
                   reconnectAttempts, bot, handles, joinTimers, reconnectTimers, stats>>

\* spawnBot in the runs where generateUsername returns the same name each
\* time
SpawnBot == SpawnBotAs("Storm1")

\* spawnBot's early return
SpawnBotReturn ==
    /\ spawnTimer
    /\ SpawnStops
    /\ spawnTimer' = FALSE
    /\ UNCHANGED <<username, macroTimers, verify, isRunning, maxBots, workingProxies, botIndex, bots, proxy, connected,
                   reconnectAttempts, bot, handles, pings, joinTimers, reconnectTimers, stats>>

\* pingServer() resolves: setTimeout(() => this.actualConnect(), this.joinDelay)
PingResolve(s) ==
    /\ pings[s] > 0
    /\ pings' = [pings EXCEPT ![s] = @ - 1]
    /\ joinTimers' = [joinTimers EXCEPT ![s] = @ + 1]
    /\ UNCHANGED <<username, macroTimers, verify, isRunning, maxBots, workingProxies, botIndex, spawnTimer, bots, proxy,
                   connected, reconnectAttempts, bot, handles, reconnectTimers, stats>>

\* pingServer() rejects: this.actualConnect() at once (cap: the bound on
\* the transports of a run)
PingReject(s, cap) ==
    /\ pings[s] > 0
    /\ TotalHandles < cap
    /\ pings' = [pings EXCEPT ![s] = @ - 1]
    /\ \E throws \in BOOLEAN : actualConnect(s, throws)
    /\ UNCHANGED <<username, macroTimers, verify, isRunning, maxBots, workingProxies, botIndex, spawnTimer, bots, proxy,
                   connected, reconnectAttempts, joinTimers, reconnectTimers>>

\* the join-delay timer fires: this.actualConnect()
JoinTimerFire(s, cap) ==
    /\ joinTimers[s] > 0
    /\ TotalHandles < cap
    /\ joinTimers' = [joinTimers EXCEPT ![s] = @ - 1]
    /\ \E throws \in BOOLEAN : actualConnect(s, throws)
    /\ UNCHANGED <<username, macroTimers, verify, isRunning, maxBots, workingProxies, botIndex, spawnTimer, bots, proxy,
                   connected, reconnectAttempts, pings, reconnectTimers>>

\* options.connect: SocksClient.createConnection(...) resolves
ProxyConnected(s, h) ==
    /\ h \in DOMAIN handles[s] /\ handles[s][h].st = "proxying"
    /\ handles' = SetHandle(s, h, [handles[s][h] EXCEPT !.st = "connecting"])
    /\ UNCHANGED <<username, macroTimers, verify, isRunning, maxBots, workingProxies, botIndex, spawnTimer, bots, proxy,
                   connected, reconnectAttempts, bot, pings, joinTimers, reconnectTimers, stats>>

\* options.connect: SocksClient.createConnection(...) rejects: stats.failed++
ProxyFailed(s, h) ==
    /\ h \in DOMAIN handles[s] /\ handles[s][h].st = "proxying"
    /\ stats' = OnProxyFailStats(stats)
    /\ handles' = SetHandle(s, h, Credit([handles[s][h] EXCEPT !.st = "nosocket"],
                                          stats, stats'))
    /\ UNCHANGED <<username, macroTimers, verify, isRunning, maxBots, workingProxies, botIndex, spawnTimer, bots, proxy,
                   connected, reconnectAttempts, bot, pings, joinTimers, reconnectTimers>>

\* this.bot.on('login', ...)
Login(s, h) ==
    /\ h \in DOMAIN handles[s] /\ handles[s][h].st = "connecting"
    /\ ~handles[s][h].kicked
    /\ connected' = [connected EXCEPT ![s] = OnLoginConnected]
    /\ stats' = OnLoginStats(stats)
    /\ handles' = SetHandle(s, h, Credit([handles[s][h] EXCEPT !.st = "active"],
                                          stats, stats'))
    /\ reconnectAttempts' = SetAttempts(s, OnLoginAttempts(reconnectAttempts[s]))
    /\ UNCHANGED <<username, macroTimers, verify, isRunning, maxBots, workingProxies, botIndex, spawnTimer, bots, proxy,
                   bot, pings, joinTimers, reconnectTimers>>

\* this.bot.on('kicked', ...)
Kicked(s, h) ==
    /\ h \in DOMAIN handles[s] /\ HasSocket(handles[s][h])
    /\ ~handles[s][h].kicked
    /\ LET r == attemptReconnect(reconnectAttempts[s], OnKickedStats(stats),
                                 reconnectTimers[s])
       IN /\ connected' = [connected EXCEPT ![s] = FALSE]
          /\ stats' = r.st
          /\ reconnectAttempts' = SetAttempts(s, r.ra)
          /\ reconnectTimers' = [reconnectTimers EXCEPT ![s] = r.rt]
    /\ handles' = SetHandle(s, h, Credit([handles[s][h] EXCEPT !.kicked = TRUE],
                                          stats, stats'))
    /\ UNCHANGED <<username, macroTimers, verify, isRunning, maxBots, workingProxies, botIndex, spawnTimer, bots, proxy,
                   bot, pings, joinTimers>>

\* this.bot.on('end', ...)
End(s, h) ==
    /\ h \in DOMAIN handles[s] /\ HasSocket(handles[s][h])
    /\ LET r == attemptReconnect(reconnectAttempts[s], OnEndStats(stats),
                                 reconnectTimers[s])
       IN /\ connected' = [connected EXCEPT ![s] = FALSE]
          /\ stats' = r.st
          /\ reconnectAttempts' = SetAttempts(s, r.ra)
          /\ reconnectTimers' = [reconnectTimers EXCEPT ![s] = r.rt]
    /\ handles' = SetHandle(s, h,
           Credit([handles[s][h] EXCEPT
                      !.st = "ended",
                      !.capEnd = (reconnectAttempts[s] = maxReconnects)],
                  stats, stats'))
    /\ UNCHANGED <<username, macroTimers, verify, isRunning, maxBots, workingProxies, botIndex, spawnTimer, bots, proxy,
                   bot, pings, joinTimers>>

OnErrorConnected_Drops(c) == FALSE

\* 'error' listener: this.connected is not written
OnErrorConnected(c) == c

\* this.bot.on('error', ...): logs only
Error(s, h) ==
    /\ h \in DOMAIN handles[s] /\ Live(handles[s][h])
    /\ connected' = [connected EXCEPT ![s] = OnErrorConnected(@)]
    /\ UNCHANGED <<username, macroTimers, verify, isRunning, maxBots, workingProxies, botIndex, spawnTimer, bots, proxy,
                   reconnectAttempts, bot, handles, pings, joinTimers,
                   reconnectTimers, stats>>

\* the reconnect timer's callback: if (isRunning) this.connect()
ReconnectTimerFire(s, d) ==
    /\ BagIn(d, reconnectTimers[s])
    /\ reconnectTimers' = [reconnectTimers EXCEPT ![s] = @ (-) SetToBag({d})]
    /\ IF isRunning THEN connect(s) ELSE UNCHANGED pings
    /\ UNCHANGED <<username, macroTimers, verify, isRunning, maxBots, workingProxies, botIndex, spawnTimer, bots, proxy,
                   connected, reconnectAttempts, bot, handles, joinTimers, stats>>

\* --------------------------------------------- UltraCommandInterface

Members == {bots[i] : i \in DOMAIN bots}

\* disconnect() of every member: if (this.bot) { this.bot.quit(); this.connected = false }
QuitMembers ==
    [s \in Sessions |->
        [h \in DOMAIN handles[s] |->
            IF s \in Members /\ h = bot[s]
            THEN [handles[s][h] EXCEPT !.quit = TRUE]
            ELSE handles[s][h]]]

DisconnectMembers ==
    [s \in Sessions |-> IF s \in Members /\ bot[s] # 0 THEN FALSE ELSE connected[s]]

StopAllBots_Kept == bots

\* stopAll(): this.bots = []
StopAllBots == <<>>

\* stopAll(): isRunning = false
StopAllRunning == FALSE

\* stopAll().  Its setTimeout(showFinalStats, 1000) only prints the counters
\* and is left out.
StopAll ==
    /\ isRunning' = StopAllRunning
    /\ handles' = QuitMembers
    /\ connected' = DisconnectMembers
    /\ bots' = StopAllBots
    /\ UNCHANGED <<username, macroTimers, verify, maxBots, workingProxies, botIndex, spawnTimer, proxy, reconnectAttempts,
                   bot, pings, joinTimers, reconnectTimers, stats>>

\* The steps of options.connect, taken only by sessions with a relay.
Relay ==
    \/ \E s \in Created : \E h \in DOMAIN handles[s] : ProxyConnected(s, h)
    \/ \E s \in Created : \E h \in DOMAIN handles[s] : ProxyFailed(s, h)

\* The session lifecycle, the spawn scheduler and stopAll, with at most cap
\* transports created in a run.
Direct(cap) ==
    \/ SpawnBot
    \/ SpawnBotReturn
    \/ \E s \in Created : PingResolve(s)
    \/ \E s \in Created : PingReject(s, cap)
    \/ \E s \in Created : JoinTimerFire(s, cap)
    \/ \E s \in Created : \E h \in DOMAIN handles[s] : Login(s, h)
    \/ \E s \in Created : \E h \in DOMAIN handles[s] : End(s, h)
    \/ \E s \in Created : \E h \in DOMAIN handles[s] : Kicked(s, h)
    \/ \E s \in Created : \E h \in DOMAIN handles[s] : Error(s, h)
    \/ \E s \in Created : \E d \in BagToSet(reconnectTimers[s]) : ReconnectTimerFire(s, d)
    \/ StopAll

Lifecycle(cap) == Direct(cap) \/ Relay

Next == Lifecycle(MaxTransports)

Spec == Init /\ [][Next]_vars

\* One session, one more transport.
InitDeep == Init /\ maxBots = 1

NextDeep == Lifecycle(MaxDeepTransports)

SpecDeep == InitDeep /\ [][NextDeep]_vars

\* ------------------------------------------- chat: console and listeners

\* bot.chat(text) on the handle this.bot of session s
Emit(hs, s, text) == [hs EXCEPT ![s][bot[s]].out = Append(@, text)]

\* the chats emitted so far, over all handles
TotalChats ==
    LET RECURSIVE OfHandles(_, _)
        OfHandles(s, h) == IF h = 0 THEN 0
                           ELSE Len(handles[s][h].out) + OfHandles(s, h - 1)
        RECURSIVE OfSessions(_)
        OfSessions(s) == IF s = 0 THEN 0
                         ELSE OfHandles(s, Len(handles[s])) + OfSessions(s - 1)
    IN OfSessions(MaxPoolBots)

\* sendChat and executeCommand of UltraBot: if (this.bot && this.connected)
CanChat(s) == bot[s] # 0 /\ connected[s]

sendChat_Uncounted(p, s, message) ==
    IF CanChat(s) THEN [p EXCEPT !.hs = Emit(@, s, message)] ELSE p

\* UltraBot.sendChat(message) on the pair p = (hs: handles, st: stats)
sendChat(p, s, message) ==
    IF CanChat(s)
    THEN [p EXCEPT !.hs = Emit(@, s, message), !.st = Inc(@, "messagesSent")]
    ELSE p

botExecuteCommand_AsChat(p, s, command) ==
    IF CanChat(s)
    THEN [p EXCEPT !.hs = Emit(@, s, command), !.st = Inc(@, "messagesSent")]
    ELSE p

\* UltraBot.executeCommand(command)
botExecuteCommand(p, s, command) ==
    IF CanChat(s)
    THEN [p EXCEPT !.hs = Emit(@, s, command), !.st = Inc(@, "commandsExecuted")]
    ELSE p

\* what the console's loops start from: p.n is the local counter (sent, executed)
Untouched == [hs |-> handles, st |-> stats, n |-> 0]

\* UltraCommandInterface.broadcast(message): this.bots.forEach from position
\* i on, then the whole method; its n is the number it reports
RECURSIVE broadcastFrom(_, _, _)
broadcastFrom(i, p, message) ==
    IF i > Len(bots) THEN p
    ELSE broadcastFrom(i + 1,
                       IF connected[bots[i]]
                       THEN [sendChat(p, bots[i], message) EXCEPT !.n = @ + 1]
                       ELSE p,
                       message)

broadcast(message) ==
    IF message = <<>> THEN Untouched ELSE broadcastFrom(1, Untouched, message)

\* UltraCommandInterface.executeCommand(command)
RECURSIVE executeCommandFrom(_, _, _)
executeCommandFrom(i, p, command) ==
    IF i > Len(bots) THEN p
    ELSE executeCommandFrom(i + 1,
                            IF connected[bots[i]]
                            THEN [botExecuteCommand(p, bots[i], command)
                                     EXCEPT !.n = @ + 1]
                            ELSE p,
                            command)

executeCommand(command) ==
    IF command = <<>> THEN Untouched ELSE executeCommandFrom(1, Untouched, command)

\* A console text is the sequence of its characters.
Hello == <<"h", "e", "l", "l", "o">>
SlashSpawn == <<"/", "s", "p", "a", "w", "n">>

\* the arguments broadcast and executeCommand are called with: nothing, a
\* chat line, a server command
Messages == {<<>>, Hello}
Commands == {<<>>, SlashSpawn}

\* a console line that reaches broadcast(message)
Broadcast(message) ==
    /\ TotalChats < MaxChats
    /\ stats' = broadcast(message).st
    /\ handles' = broadcast(message).hs
    /\ UNCHANGED <<username, macroTimers, verify, isRunning, maxBots, workingProxies, botIndex, spawnTimer, bots,
                   proxy, connected, reconnectAttempts, bot, pings, joinTimers,
                   reconnectTimers>>

\* a console line that reaches executeCommand(command)
ExecuteCommand(command) ==
    /\ TotalChats < MaxChats
    /\ stats' = executeCommand(command).st
    /\ handles' = executeCommand(command).hs
    /\ UNCHANGED <<username, macroTimers, verify, isRunning, maxBots, workingProxies, botIndex, spawnTimer, bots,
                   proxy, connected, reconnectAttempts, bot, pings, joinTimers,
                   reconnectTimers>>

\* A pool of up to MaxPoolBots sessions.
InitPool ==
    /\ isRunning = TRUE
    /\ maxBots \in 0..MaxPoolBots
    /\ workingProxies \in {[i \in 1..k |-> i] : k \in 0..Min(MaxProxies, 2 * maxBots)}
    /\ verify = Verified(workingProxies)
    /\ botIndex = 0
    /\ spawnTimer = TRUE
    /\ bots = <<>>
    /\ proxy = [s \in Sessions |-> 0]
    /\ connected = [s \in Sessions |-> FALSE]
    /\ reconnectAttempts = [s \in Sessions |-> 0]
    /\ bot = [s \in Sessions |-> 0]
    /\ handles = [s \in Sessions |-> <<>>]
    /\ pings = [s \in Sessions |-> 0]
    /\ joinTimers = [s \in Sessions |-> 0]
    /\ reconnectTimers = [s \in Sessions |-> EmptyBag]
    /\ stats = StatsInit
    /\ macroTimers = <<>>
    /\ username = [s \in Sessions |-> ""]

NextPool == Lifecycle(MaxPoolTransports)

SpecPool == InitPool /\ [][NextPool]_vars

\* generateUsername: a prefix and a random number
Names == {"Storm1", "Ghost2"}

\* One session, whose name generateUsername draws.
NextIdentity ==
    \/ Lifecycle(MaxTransports)
    \/ \E name \in Names : SpawnBotAs(name)

SpecIdentity == InitDeep /\ [][NextIdentity]_vars

\* One session without a relay, no stopAll, facing a server that is quick
\* to kick.  The ping never finds the server, so every connect() goes to
\* actualConnect() at once, and createBot does not throw; the server closes a
\* connection only by a kick, the socket's end follows the kick before
\* anything else runs, and a reconnect timer (5 s or more) fires only when
\* the session's earlier connections have all been closed.
KickInFlight ==
    \E s \in Created : \E h \in DOMAIN handles[s] :
        handles[s][h].kicked /\ handles[s][h].st # "ended"

AllClosed(s) ==
    /\ pings[s] = 0
    /\ \A h \in DOMAIN handles[s] : ~Live(handles[s][h])

StormConnect(s) == PingReject(s, MaxStormTransports) /\ stats'.sent = stats.sent + 1

StormEnd(s, h) == End(s, h) /\ handles[s][h].kicked

StormTimerFire(s, d) == ReconnectTimerFire(s, d) /\ AllClosed(s)

NextStorm ==
    \/ SpawnBot
    \/ \E s \in Created : StormConnect(s)
    \/ ~KickInFlight /\ \E s \in Created : \E h \in DOMAIN handles[s] : Login(s, h)
    \/ ~KickInFlight /\ \E s \in Created : \E h \in DOMAIN handles[s] : Kicked(s, h)
    \/ \E s \in Created : \E h \in DOMAIN handles[s] : StormEnd(s, h)
    \/ \E s \in Created : \E d \in BagToSet(reconnectTimers[s]) : StormTimerFire(s, d)

InitStorm == InitDeep /\ workingProxies = <<>>

SpecStorm == InitStorm /\ [][NextStorm]_vars

\* One session without a relay whose server lets no transport log in.  The
\* run loop takes every timer callback that is due and every ping settles
\* (connect, error or the 5 s timeout); what the server sends and when the
\* operator stops the pool is left open.
NextRefused ==
    \/ SpawnBot
    \/ SpawnBotReturn
    \/ \E s \in Created : PingResolve(s)
    \/ \E s \in Created : PingReject(s, MaxRefusedTransports)
    \/ \E s \in Created : JoinTimerFire(s, MaxRefusedTransports)
    \/ \E s \in Created : \E h \in DOMAIN handles[s] : End(s, h)
    \/ \E s \in Created : \E h \in DOMAIN handles[s] : Kicked(s, h)
    \/ \E s \in Created : \E d \in BagToSet(reconnectTimers[s]) : ReconnectTimerFire(s, d)
    \/ StopAll

FairRefused ==
    /\ WF_vars(SpawnBot)
    /\ WF_vars(SpawnBotReturn)
    /\ \A s \in Sessions :
          /\ WF_vars(PingResolve(s) \/ PingReject(s, MaxRefusedTransports))
          /\ WF_vars(JoinTimerFire(s, MaxRefusedTransports))
          /\ WF_vars(\E d \in BagToSet(reconnectTimers[s]) : ReconnectTimerFire(s, d))

SpecRefused == InitStorm /\ [][NextRefused]_vars /\ FairRefused

\* The pool, run without relays, with the console's chat lines.
InitChat == InitPool /\ workingProxies = <<>>

NextChat ==
    \/ Direct(MaxPoolTransports)
    \/ \E message \in Messages : Broadcast(message)
    \/ \E command \in Commands : ExecuteCommand(command)

SpecChat == InitChat /\ [][NextChat]_vars

\* The pool in a run where every connect attempt succeeds (createBot
\* returns, the relay connects, 'login' arrives), no transport is kicked or
\* ends, and stopAll is not called; the console may send chat lines.
ConnectsAfterPing(s) ==
    PingReject(s, MaxPoolBots) /\ stats'.sent = stats.sent + 1

ConnectsAfterDelay(s) ==
    JoinTimerFire(s, MaxPoolBots) /\ stats'.sent = stats.sent + 1

NextCalm ==
    \/ SpawnBot
    \/ SpawnBotReturn
    \/ \E s \in Created : PingResolve(s)
    \/ \E s \in Created : ConnectsAfterPing(s)
    \/ \E s \in Created : ConnectsAfterDelay(s)
    \/ \E s \in Created : \E h \in DOMAIN handles[s] : ProxyConnected(s, h)
    \/ \E s \in Created : \E h \in DOMAIN handles[s] : Login(s, h)
    \/ \E s \in Created : \E h \in DOMAIN handles[s] : Error(s, h)
    \/ \E message \in Messages : Broadcast(message)
    \/ \E command \in Commands : ExecuteCommand(command)

\* Timers fire and the ping's promise settles (pingServer rejects after 5 s
\* at the latest); the relay's answer and 'login' arrive because the run is
\* one where every connect attempt succeeds.
FairCalm ==
    /\ WF_vars(SpawnBot)
    /\ WF_vars(SpawnBotReturn)
    /\ \A s \in Sessions :
          /\ WF_vars(PingResolve(s) \/ ConnectsAfterPing(s))
          /\ WF_vars(ConnectsAfterDelay(s))
          /\ WF_vars(\E h \in DOMAIN handles[s] : ProxyConnected(s, h))
          /\ WF_vars(\E h \in DOMAIN handles[s] : Login(s, h))

SpecCalm == InitPool /\ [][NextCalm]_vars /\ FairCalm

\* ------------------------------ UltraCommandInterface.processCommand

Uppers ==
    <<"A", "B", "C", "D", "E", "F", "G", "H", "I", "J", "K", "L", "M",
      "N", "O", "P", "Q", "R", "S", "T", "U", "V", "W", "X", "Y", "Z">>
Lowers ==
    <<"a", "b", "c", "d", "e", "f", "g", "h", "i", "j", "k", "l", "m",
      "n", "o", "p", "q", "r", "s", "t", "u", "v", "w", "x", "y", "z">>

\* text.toLowerCase(), for texts of ASCII characters
ToLowerCase(text) ==
    [i \in DOMAIN text |->
        IF \E k \in DOMAIN Uppers : Uppers[k] = text[i]
        THEN Lowers[CHOOSE k \in DOMAIN Uppers : Uppers[k] = text[i]]
        ELSE text[i]]

\* text.split(' '): the pieces between single spaces, empty ones included
RECURSIVE Split(_)
Split(text) ==
    IF \A i \in DOMAIN text : text[i] # " " THEN <<text>>
    ELSE LET k == CHOOSE i \in DOMAIN text :
                      text[i] = " " /\ \A j \in 1..(i - 1) : text[j] # " "
         IN <<SubSeq(text, 1, k - 1)>> \o Split(SubSeq(text, k + 1, Len(text)))

\* words.join(' ')
RECURSIVE Join(_)
Join(words) ==
    IF words = <<>> THEN <<>>
    ELSE IF Len(words) = 1 THEN words[1]
    ELSE words[1] \o <<" ">> \o Join(Tail(words))

\* text.startsWith('/')
StartsWithSlash(text) == text # <<>> /\ text[1] = "/"

\* the labels of processCommand's switch
Label_help == <<"h", "e", "l", "p">>
Label_question == <<"?">>
Label_say == <<"s", "a", "y">>
Label_chat == <<"c", "h", "a", "t">>
Label_cmd == <<"c", "m", "d">>
Label_command == <<"c", "o", "m", "m", "a", "n", "d">>
Label_stats == <<"s", "t", "a", "t", "s">>
Label_list == <<"l", "i", "s", "t">>
Label_bots == <<"b", "o", "t", "s">>
Label_info == <<"i", "n", "f", "o">>
Label_macro == <<"m", "a", "c", "r", "o">>
Label_clear == <<"c", "l", "e", "a", "r">>
Label_stop == <<"s", "t", "o", "p">>
Label_exit == <<"e", "x", "i", "t">>
Label_quit == <<"q", "u", "i", "t">>

BuiltIns ==
    {Label_help, Label_question, Label_say, Label_chat, Label_cmd, Label_command,
     Label_stats, Label_list, Label_bots, Label_info, Label_macro, Label_clear,
     Label_stop, Label_exit, Label_quit}

\* a call processCommand makes: the method and its argument
Call(fn, arg) == [fn |-> fn, arg |-> arg]

RouteDefault_Stripped(input) ==
    IF StartsWithSlash(input) THEN Call("executeCommand", Tail(input))
    ELSE Call("broadcast", input)

\* the default case of the switch
RouteDefault(input) ==
    IF StartsWithSlash(input) THEN Call("executeCommand", input)
    ELSE Call("broadcast", input)

\* args[0]; undefined is written as the empty text, which like it names no
\* macro
FirstOf(args) == IF args = <<>> THEN <<>> ELSE args[1]

\* processCommand(input), as the one call it makes
processCommand(input) ==
    LET command == ToLowerCase(Head(Split(input)))
        args == Tail(Split(input))
    IN CASE command \in {Label_help, Label_question} -> Call("showHelp", <<>>)
         [] command \in {Label_say, Label_chat} -> Call("broadcast", Join(args))
         [] command \in {Label_cmd, Label_command} -> Call("executeCommand", Join(args))
         [] command = Label_stats -> Call("displayStats", <<>>)
         [] command \in {Label_list, Label_bots} -> Call("listBots", <<>>)
         [] command = Label_info -> Call("showBotInfo", FirstOf(args))
         [] command = Label_macro -> Call("executeMacro", FirstOf(args))
         [] command = Label_clear -> Call("displayStats", <<>>)
         [] command = Label_stop -> Call("stopAll", <<>>)
         [] command \in {Label_exit, Label_quit} -> Call("exit", <<>>)
         [] OTHER -> RouteDefault(input)

\* loadMacros
Name_joinserver == <<"j", "o", "i", "n", "s", "e", "r", "v", "e", "r">>
Name_spam == <<"s", "p", "a", "m">>
ServerSurvival ==
    <<"/", "s", "e", "r", "v", "e", "r", " ", "s", "u", "r", "v", "i", "v",
      "a", "l">>
ServerSkyblock ==
    <<"/", "s", "e", "r", "v", "e", "r", " ", "s", "k", "y", "b", "l", "o",
      "c", "k">>
HelloBang == <<"H", "e", "l", "l", "o", "!">>
HowAreYou == <<"H", "o", "w", " ", "a", "r", "e", " ", "y", "o", "u", "?">>
NiceServer == <<"N", "i", "c", "e", " ", "s", "e", "r", "v", "e", "r", "!">>

MacroNames == {Name_joinserver, Name_spam}
Macros(name) ==
    IF name = Name_joinserver THEN <<ServerSurvival, ServerSkyblock>>
    ELSE <<HelloBang, HowAreYou, NiceServer>>

\* executeMacro(name): one timer per step, of delays 0, 1000, 2000, ...; they
\* fire in this order, so the pending ones are a suffix of the macro
executeMacro(name) ==
    IF name \in MacroNames THEN Append(macroTimers, Macros(name)) ELSE macroTimers

\* the rl 'line' listener on a line that trims to input, which is not empty:
\* processCommand(input), with at most cap chats and MaxMacros macros in a
\* run.  exit() ends the process and is left out.
ConsoleLine(input, cap) ==
    LET call == processCommand(input)
    IN /\ call.fn # "exit"
       /\ TotalChats < cap
       /\ CASE call.fn = "broadcast" ->
                 /\ stats' = broadcast(call.arg).st
                 /\ handles' = broadcast(call.arg).hs
                 /\ UNCHANGED <<isRunning, connected, bots, macroTimers>>
            [] call.fn = "executeCommand" ->
                 /\ stats' = executeCommand(call.arg).st
                 /\ handles' = executeCommand(call.arg).hs
                 /\ UNCHANGED <<isRunning, connected, bots, macroTimers>>
            [] call.fn = "stopAll" ->
                 /\ isRunning' = StopAllRunning
                 /\ handles' = QuitMembers
                 /\ connected' = DisconnectMembers
                 /\ bots' = StopAllBots
                 /\ UNCHANGED <<stats, macroTimers>>
            [] call.fn = "executeMacro" ->
                 /\ Len(macroTimers) < MaxMacros
                 /\ macroTimers' = executeMacro(call.arg)
                 /\ UNCHANGED <<isRunning, connected, bots, stats, handles>>
            [] OTHER ->
                 UNCHANGED <<isRunning, connected, bots, stats, handles, macroTimers>>
       /\ UNCHANGED <<username, verify, maxBots, workingProxies, botIndex, spawnTimer,
                      proxy, reconnectAttempts, bot, pings, joinTimers, reconnectTimers>>

MacroRoute_AllBroadcast(cmd) == Call("broadcast", cmd)

\* the timer callback of a macro step
MacroRoute(cmd) ==
    IF StartsWithSlash(cmd) THEN Call("executeCommand", cmd) ELSE Call("broadcast", cmd)

\* the earliest pending timer of the p-th executeMacro call fires
MacroTimerFire(p, cap) ==
    /\ p \in DOMAIN macroTimers /\ macroTimers[p] # <<>>
    /\ TotalChats < cap
    /\ LET call == MacroRoute(Head(macroTimers[p]))
           done == IF call.fn = "broadcast" THEN broadcast(call.arg)
                   ELSE executeCommand(call.arg)
       IN /\ stats' = done.st
          /\ handles' = done.hs
    /\ macroTimers' = [macroTimers EXCEPT ![p] = Tail(@)]
    /\ UNCHANGED <<username, verify, isRunning, maxBots, workingProxies, botIndex, spawnTimer, bots,
                   proxy, connected, reconnectAttempts, bot, pings, joinTimers,
                   reconnectTimers>>

\* parseInt(text) of an argument of the split line (no blanks in it): an
\* optional sign and the leading digits; NaN when no digit leads, or when
\* there is no argument
DigitValue(ch) ==
    CHOOSE n \in 0..9 : <<"0", "1", "2", "3", "4", "5", "6", "7", "8", "9">>[n + 1] = ch

RECURSIVE LeadingNumber(_, _)
LeadingNumber(text, acc) ==
    IF text = <<>> \/ Head(text) \notin {"0", "1", "2", "3", "4", "5", "6", "7", "8", "9"}
    THEN acc
    ELSE LeadingNumber(Tail(text), 10 * acc + DigitValue(Head(text)))

ParseInt(text) ==
    LET signed == text # <<>> /\ Head(text) \in {"+", "-"}
        body == IF signed THEN Tail(text) ELSE text
    IN IF body = <<>> \/ Head(body) \notin {"0", "1", "2", "3", "4", "5", "6", "7", "8", "9"}
       THEN [nan |-> TRUE, val |-> 0]
       ELSE [nan |-> FALSE,
             val |-> IF signed /\ Head(text) = "-" THEN 0 - LeadingNumber(body, 0)
                     ELSE LeadingNumber(body, 0)]

showBotInfo_ByPosition(index) ==
    LET n == ParseInt(index)
    IN IF ~n.nan /\ n.val \in 1..botIndex THEN n.val ELSE 0

\* showBotInfo(index): this.bots.find(b => b.index === parseInt(index)), as
\* the session whose box is printed, 0 for "Bot not found" (the session
\* numbered s has index s)
showBotInfo(index) ==
    LET n == ParseInt(index)
        hits == {i \in DOMAIN bots : ~n.nan /\ bots[i] = n.val}
    IN IF hits = {} THEN 0
       ELSE bots[CHOOSE i \in hits : \A j \in hits : i <= j]

\* what the operator types
InfoOne == <<"i", "n", "f", "o", " ", "1">>
InfoOfTwo == <<"I", "N", "F", "O", " ", "2">>
InfoPlusOne == <<"i", "n", "f", "o", " ", "+", "1", "x">>
InfoTen == <<"i", "n", "f", "o", " ", "1", "0">>
Info == <<"i", "n", "f", "o">>
InfoLines == {InfoOne, InfoOfTwo, InfoPlusOne, InfoTen, Info}
SayHello == <<"s", "a", "y", " ", "h", "e", "l", "l", "o">>
CmdSlashSpawn == <<"C", "M", "D", " ", "/", "s", "p", "a", "w", "n">>
SlashSayHello == <<"/", "s", "a", "y", " ", "h", "e", "l", "l", "o">>
HelloSlashSpawn ==
    <<"h", "e", "l", "l", "o", " ", "/", "s", "p", "a", "w", "n">>
Help == <<"H", "e", "l", "p">>
Stop == <<"s", "t", "o", "p">>
MacroJoinserver ==
    <<"m", "a", "c", "r", "o", " ", "j", "o", "i", "n", "s", "e", "r", "v",
      "e", "r">>
MacroSpam == <<"m", "a", "c", "r", "o", " ", "s", "p", "a", "m">>
MacroOfSpam == <<"m", "a", "c", "r", "o", " ", "S", "p", "a", "m">>
Macro == <<"m", "a", "c", "r", "o">>

Lines ==
    {Hello, SlashSpawn, SayHello, CmdSlashSpawn, SlashSayHello, HelloSlashSpawn,
     Help, Stop}
MacroLines == {MacroJoinserver, MacroSpam, MacroOfSpam, Macro, Hello, Stop} \cup InfoLines

\* One session without a relay, and the console.
InitConsole == InitPool /\ maxBots = 1 /\ workingProxies = <<>>

NextConsole ==
    \/ Direct(MaxPoolTransports)
    \/ \E input \in Lines : ConsoleLine(input, MaxChats)

SpecConsole == InitConsole /\ [][NextConsole]_vars

\* One session without a relay, whose connect attempt succeeds and whose
\* transport is not kicked and does not end, and the console playing macros.
NextMacro ==
    \/ SpawnBot
    \/ SpawnBotReturn
    \/ \E s \in Created : PingResolve(s)
    \/ \E s \in Created : ConnectsAfterPing(s)
    \/ \E s \in Created : ConnectsAfterDelay(s)
    \/ \E s \in Created : \E h \in DOMAIN handles[s] : Login(s, h)
    \/ \E input \in MacroLines : ConsoleLine(input, MaxMacroChats)
    \/ \E p \in DOMAIN macroTimers : MacroTimerFire(p, MaxMacroChats)

SpecMacro == InitConsole /\ [][NextMacro]_vars

\* An inbound chat message, by the words it is made of.  The four patterns
\* the 'message' listener looks for are words of their own: none of them is
\* a substring of another.
Words == {"/register", "/login", "Please, login with the command", "premium", "hello"}
Texts == UNION {[1..n -> Words] : n \in 0..MaxWords}

\* text.includes(pattern)
Includes(text, pattern) == \E i \in DOMAIN text : text[i] = pattern

\* one  if (text.includes(pattern)) this.bot.chat(reply)  of the listener
Respond(hs, s, text, pattern, reply) ==
    IF Includes(text, pattern) THEN Emit(hs, s, reply) ELSE hs

\* the 'message' listener's four ifs, in the order of the source
AutoRespond(hs, s, text) ==
    LET a == Respond(hs, s, text, "/register", "/register <password> <password>")
        b == Respond(a, s, text, "/login", "/login <password>")
        c == Respond(b, s, text, "Please, login with the command", "/login <password>")
    IN Respond(c, s, text, "premium", "/nlogin")

\* this.bot.on('message', ...) of handle h, which is logged in
Message(s, h, text) ==
    /\ h \in DOMAIN handles[s] /\ handles[s][h].st = "active"
    /\ TotalChats < MaxChats
    /\ handles' = AutoRespond(handles, s, text)
    /\ UNCHANGED <<username, macroTimers, verify, isRunning, maxBots, workingProxies, botIndex, spawnTimer, bots,
                   proxy, connected, reconnectAttempts, bot, pings, joinTimers,
                   reconnectTimers, stats>>

NextMsg ==
    \/ Lifecycle(MaxPoolTransports)
    \/ \E s \in Created : \E h \in DOMAIN handles[s] : \E text \in Texts :
          Message(s, h, text)

SpecMsg == InitDeep /\ [][NextMsg]_vars

\* ------------------------------------- main: the proxy verification loop

ReachedWant_Never(n) == n > WantCount

\* if (workingProxies.length >= wantCount) break
ReachedWant(n) == n >= WantCount

\* the loop takes its next batch: batch.map(proxy => testProxy(...)) starts
\* every test of the batch.  It is entered at the start and again when
\* Promise.allSettled(tests) has resolved without the break.
StartBatch ==
    /\ verify.phase = "testing" /\ verify.pending = {}
    /\ verify.batch < NumBatches(Len(verify.allProxies))
    /\ verify.batch > 0 => ~ReachedWant(Len(workingProxies))
    /\ LET b == verify.batch + 1
           started == Batch(verify.allProxies, b)
       IN verify' = [verify EXCEPT
                        !.batch = b,
                        !.pending = started,
                        !.tests = [c \in DOMAIN @ |->
                                      IF c \in started THEN @[c] + 1 ELSE @[c]]]
    /\ UNCHANGED <<username, macroTimers, isRunning, maxBots, workingProxies, botIndex, spawnTimer, bots, proxy,
                   connected, reconnectAttempts, bot, handles, pings, joinTimers,
                   reconnectTimers, stats>>

Keep_Placeholder(wp, c) == Append(wp, 0)

\* workingProxies.push(proxy)
Keep(wp, c) == Append(wp, c)

\* testProxy(proxy).then(works => ...) of candidate c settles
TestSettles(c, works) ==
    /\ verify.phase = "testing" /\ c \in verify.pending
    /\ verify' = [verify EXCEPT !.pending = @ \ {c}]
    /\ IF works /\ Len(workingProxies) < WantCount
       THEN /\ workingProxies' = Keep(workingProxies, c)
            /\ stats' = [stats EXCEPT !.proxiesWorking = Len(workingProxies')]
       ELSE UNCHANGED <<username, macroTimers, workingProxies, stats>>
    /\ UNCHANGED <<username, macroTimers, isRunning, maxBots, botIndex, spawnTimer, bots, proxy, connected,
                   reconnectAttempts, bot, handles, pings, joinTimers, reconnectTimers>>

\* the loop is left, by the break or after the last batch, and main goes on
\* to setTimeout(spawnBot, 1000)
LeaveLoop ==
    /\ verify.phase = "testing" /\ verify.pending = {}
    /\ \/ verify.batch >= NumBatches(Len(verify.allProxies))
       \/ verify.batch > 0 /\ ReachedWant(Len(workingProxies))
    /\ verify' = [verify EXCEPT !.phase = "running"]
    /\ spawnTimer' = TRUE
    /\ UNCHANGED <<username, macroTimers, isRunning, maxBots, workingProxies, botIndex, bots, proxy, connected,
                   reconnectAttempts, bot, handles, pings, joinTimers, reconnectTimers,
                   stats>>

InitVerify ==
    /\ isRunning = TRUE
    /\ maxBots \in 0..MaxBots
    /\ workingProxies = <<>>
    /\ verify \in {NewVerify(program, n) :
                      program \in {"ass", "botattack"}, n \in 0..MaxCandidates}
    /\ botIndex = 0
    /\ spawnTimer = FALSE
    /\ bots = <<>>
    /\ proxy = [s \in Sessions |-> 0]
    /\ connected = [s \in Sessions |-> FALSE]
    /\ reconnectAttempts = [s \in Sessions |-> 0]
    /\ bot = [s \in Sessions |-> 0]
    /\ handles = [s \in Sessions |-> <<>>]
    /\ pings = [s \in Sessions |-> 0]
    /\ joinTimers = [s \in Sessions |-> 0]
    /\ reconnectTimers = [s \in Sessions |-> EmptyBag]
    /\ stats = StatsInit
    /\ macroTimers = <<>>
    /\ username = [s \in Sessions |-> ""]

NextVerify ==
    \/ StartBatch
    \/ \E c \in verify.pending : \E works \in BOOLEAN : TestSettles(c, works)
    \/ LeaveLoop

SpecVerify == InitVerify /\ [][NextVerify]_vars

\* ----------------------------------- fetchProxiesWithProgress, fetchFromUrl

\* A line of a response body is the sequence of its characters.
IsDigit(ch) == ch \in {"0", "1", "2", "3", "4", "5", "6", "7", "8", "9"}
IsSpace(ch) == ch \in {" ", "\t", "\r"}

\* line.includes(':')
HasColon(line) == \E i \in DOMAIN line : line[i] = ":"

\* line.trim()
RECURSIVE Trim(_)
Trim(line) ==
    IF line = <<>> THEN line
    ELSE IF IsSpace(Head(line)) THEN Trim(Tail(line))
    ELSE IF IsSpace(line[Len(line)]) THEN Trim(SubSeq(line, 1, Len(line) - 1))
    ELSE line

\* The matcher of /^\d+\.\d+\.\d+\.\d+:\d+$/.  A position is the index of
\* the next character to read, 0 once the match has failed.
RECURSIVE SkipDigits(_, _)
SkipDigits(line, i) ==
    IF i <= Len(line) /\ IsDigit(line[i]) THEN SkipDigits(line, i + 1) ELSE i

\* \d+ from position i
Digits(line, i) ==
    IF i = 0 \/ SkipDigits(line, i) = i THEN 0 ELSE SkipDigits(line, i)

\* the literal ch at position i
Literal(line, i, ch) ==
    IF i # 0 /\ i <= Len(line) /\ line[i] = ch THEN i + 1 ELSE 0

IsProxyLine(line) ==
    LET a == Digits(line, 1)
        b == Digits(line, Literal(line, a, "."))
        c == Digits(line, Literal(line, b, "."))
        d == Digits(line, Literal(line, c, "."))
        e == Digits(line, Literal(line, d, ":"))
    IN e = Len(line) + 1

\* fetchFromUrl's 'end' listener on a body that split('\n') cut into lines:
\* .filter(includes(':')).map(trim).filter(regex)
RECURSIVE ParseBody(_)
ParseBody(lines) ==
    IF lines = <<>> THEN <<>>
    ELSE LET line == Head(lines)
             kept == IF HasColon(line) /\ IsProxyLine(Trim(line))
                     THEN <<Trim(line)>> ELSE <<>>
         IN kept \o ParseBody(Tail(lines))

Unique_Kept(q) == q

\* [...new Set(q)]: the first occurrence of every element, in order
RECURSIVE Unique(_)
Unique(q) ==
    IF q = <<>> THEN <<>>
    ELSE LET rest == Unique(SubSeq(q, 1, Len(q) - 1))
             last == q[Len(q)]
         IN IF \E i \in DOMAIN rest : rest[i] = last THEN rest ELSE Append(rest, last)

\* the lines the sources answer with
ProxyA == <<"1", ".", "1", ".", "1", ".", "1", ":", "1">>
ProxyB == <<"2", ".", "2", ".", "2", ".", "2", ":", "2">>
BodyLines ==
    {ProxyA, ProxyB,
     ProxyA \o <<"\r">>,                          \* a line of a CRLF file
     <<"1", ".", "1", ".", "1", ".", "1">>,        \* no port
     <<"x", ":", "1">>,                            \* a host name
     <<>>}
Bodies == UNION {[1..n -> BodyLines] : n \in 0..MaxLines}

\* The well-formed ip:port strings a body holds, surrounding white space
\* apart.
ProxiesIn(body) == {g \in {ProxyA, ProxyB} : \E i \in DOMAIN body : Trim(body[i]) = g}

\* fetchProxiesWithProgress before its loop.  source: the urls fetched so
\* far; failed: those whose fetch was rejected; returned: the well-formed
\* strings the answering sources held; fetched: the length of allProxies
\* when the loop was left.
NewCollect ==
    [program |-> "ass", phase |-> "fetching", allProxies |-> <<>>,
     source |-> 0, failed |-> {}, returned |-> {}, fetched |-> 0]

\* await fetchFromUrl(url) resolves: allProxies.push(...proxies)
FetchResolves(body) ==
    /\ verify.phase = "fetching" /\ verify.source < MaxSources
    /\ verify' = [verify EXCEPT
                     !.source = @ + 1,
                     !.allProxies = @ \o ParseBody(body),
                     !.returned = @ \union ProxiesIn(body)]
    /\ UNCHANGED <<username, macroTimers, isRunning, maxBots, workingProxies, botIndex, spawnTimer, bots, proxy,
                   connected, reconnectAttempts, bot, handles, pings, joinTimers,
                   reconnectTimers, stats>>

\* await fetchFromUrl(url) rejects: catch { }
FetchRejects ==
    /\ verify.phase = "fetching" /\ verify.source < MaxSources
    /\ verify' = [verify EXCEPT !.source = @ + 1, !.failed = @ \union {verify.source + 1}]
    /\ UNCHANGED <<username, macroTimers, isRunning, maxBots, workingProxies, botIndex, spawnTimer, bots, proxy,
                   connected, reconnectAttempts, bot, handles, pings, joinTimers,
                   reconnectTimers, stats>>

\* after the loop: allProxies = [...new Set(allProxies)];
\* stats.proxiesFound = allProxies.length; return allProxies
Collected ==
    /\ verify.phase = "fetching" /\ verify.source = MaxSources
    /\ verify' = [verify EXCEPT
                     !.phase = "collected",
                     !.fetched = Len(verify.allProxies),
                     !.allProxies = Unique(@)]
    /\ stats' = [stats EXCEPT !.proxiesFound = Len(verify'.allProxies)]
    /\ UNCHANGED <<username, macroTimers, isRunning, maxBots, workingProxies, botIndex, spawnTimer, bots, proxy,
                   connected, reconnectAttempts, bot, handles, pings, joinTimers,
                   reconnectTimers>>

InitCollect ==
    /\ isRunning = TRUE
    /\ maxBots \in 0..MaxBots
    /\ workingProxies = <<>>
    /\ verify = NewCollect
    /\ botIndex = 0
    /\ spawnTimer = FALSE
    /\ bots = <<>>
    /\ proxy = [s \in Sessions |-> 0]
    /\ connected = [s \in Sessions |-> FALSE]
    /\ reconnectAttempts = [s \in Sessions |-> 0]
    /\ bot = [s \in Sessions |-> 0]
    /\ handles = [s \in Sessions |-> <<>>]
    /\ pings = [s \in Sessions |-> 0]
    /\ joinTimers = [s \in Sessions |-> 0]
    /\ reconnectTimers = [s \in Sessions |-> EmptyBag]
    /\ stats = StatsInit
    /\ macroTimers = <<>>
    /\ username = [s \in Sessions |-> ""]

NextCollect ==
    \/ \E body \in Bodies : FetchResolves(body)
    \/ FetchRejects
    \/ Collected

SpecCollect == InitCollect /\ [][NextCollect]_vars

\* ------------------------------------------------- src/botattack.js
\* EnhancedBot has no isRunning, no ping, no join delay and no reconnect;
\* the variables of those stay as they are.

Idle == <<isRunning, maxBots, workingProxies, verify, reconnectAttempts, pings,
          joinTimers, reconnectTimers, macroTimers>>

\* the verification loop of botattack.js has kept at most maxBots proxies
VerifiedAttack(wp) == [Verified(wp) EXCEPT !.program = "botattack"]

\* main up to its first call of spawnBot, which is pending
InitAttack ==
    /\ isRunning = TRUE
    /\ maxBots \in 0..MaxPoolBots
    /\ workingProxies \in {[i \in 1..k |-> i] : k \in 0..Min(MaxProxies, maxBots)}
    /\ verify = VerifiedAttack(workingProxies)
    /\ botIndex = 0
    /\ spawnTimer = TRUE
    /\ bots = <<>>
    /\ proxy = [s \in Sessions |-> 0]
    /\ connected = [s \in Sessions |-> FALSE]
    /\ reconnectAttempts = [s \in Sessions |-> 0]
    /\ bot = [s \in Sessions |-> 0]
    /\ handles = [s \in Sessions |-> <<>>]
    /\ pings = [s \in Sessions |-> 0]
    /\ joinTimers = [s \in Sessions |-> 0]
    /\ reconnectTimers = [s \in Sessions |-> EmptyBag]
    /\ stats = StatsInit
    /\ macroTimers = <<>>
    /\ username = [s \in Sessions |-> ""]

\* EnhancedBot.connect(), called by the constructor: createBot either
\* returns a handle or throws
EnhancedConnect(s, options, throws) ==
    IF throws
    THEN /\ stats' = Inc(stats, "failed")
         /\ UNCHANGED <<bot, handles>>
    ELSE /\ handles' = [handles EXCEPT ![s] =
                            Append(@, NewHandle(options.proxy # 0, options, 0))]
         /\ bot' = [bot EXCEPT ![s] = Len(handles[s]) + 1]
         /\ stats' = Inc(stats, "sent")

\* spawnBot: workingProxies[botIndex] || null
AttackProxyFor(i) ==
    IF i < Len(workingProxies) THEN workingProxies[i + 1] ELSE 0

\* spawnBot: if (botIndex >= config.maxBots) return
AttackSpawnStops == botIndex >= maxBots

\* spawnBot past its test: new EnhancedBot({...}), whose constructor
\* connects, cmdInterface.bots.push(bot), botIndex++ and
\* setTimeout(spawnBot, config.delay)
AttackSpawnBot(name) ==
    /\ spawnTimer
    /\ ~AttackSpawnStops
    /\ LET s == botIndex + 1
           options == [username |-> name, proxy |-> AttackProxyFor(botIndex)]
       IN /\ proxy' = [proxy EXCEPT ![s] = options.proxy]
          /\ username' = [username EXCEPT ![s] = options.username]
          /\ \E throws \in BOOLEAN : EnhancedConnect(s, options, throws)
          /\ bots' = Append(bots, s)
    /\ botIndex' = botIndex + 1
    /\ spawnTimer' = TRUE
    /\ UNCHANGED <<Idle, connected>>

\* spawnBot's early return
AttackSpawnBotReturn ==
    /\ spawnTimer
    /\ AttackSpawnStops
    /\ spawnTimer' = FALSE
    /\ UNCHANGED <<Idle, botIndex, bots, proxy, username, connected, bot, handles, stats>>

\* options.connect: SocksClient.createConnection(...) resolves
EnhancedProxyConnected(s, h) ==
    /\ h \in DOMAIN handles[s] /\ handles[s][h].st = "proxying"
    /\ handles' = SetHandle(s, h, [handles[s][h] EXCEPT !.st = "connecting"])
    /\ UNCHANGED <<Idle, botIndex, spawnTimer, bots, proxy, username, connected, bot, stats>>

\* options.connect: SocksClient.createConnection(...) rejects: stats.failed++
EnhancedProxyFailed(s, h) ==
    /\ h \in DOMAIN handles[s] /\ handles[s][h].st = "proxying"
    /\ stats' = Inc(stats, "failed")
    /\ handles' = SetHandle(s, h, Credit([handles[s][h] EXCEPT !.st = "nosocket"],
                                          stats, stats'))
    /\ UNCHANGED <<Idle, botIndex, spawnTimer, bots, proxy, username, connected, bot>>

\* this.bot.on('login', ...)
EnhancedLogin(s, h) ==
    /\ h \in DOMAIN handles[s] /\ handles[s][h].st = "connecting"
    /\ ~handles[s][h].kicked
    /\ connected' = [connected EXCEPT ![s] = TRUE]
    /\ stats' = Inc(stats, "joined")
    /\ handles' = SetHandle(s, h, Credit([handles[s][h] EXCEPT !.st = "active"],
                                          stats, stats'))
    /\ UNCHANGED <<Idle, botIndex, spawnTimer, bots, proxy, username, bot>>

\* this.bot.on('kicked', ...)
EnhancedKicked(s, h) ==
    /\ h \in DOMAIN handles[s] /\ HasSocket(handles[s][h])
    /\ ~handles[s][h].kicked
    /\ connected' = [connected EXCEPT ![s] = FALSE]
    /\ stats' = Inc(stats, "kicked")
    /\ handles' = SetHandle(s, h, Credit([handles[s][h] EXCEPT !.kicked = TRUE],
                                          stats, stats'))
    /\ UNCHANGED <<Idle, botIndex, spawnTimer, bots, proxy, username, bot>>

EnhancedEnd_Reconnects(s, h) ==
    /\ h \in DOMAIN handles[s] /\ HasSocket(handles[s][h])
    /\ connected' = [connected EXCEPT ![s] = FALSE]
    /\ stats' = Inc(Inc(stats, "timeout"), "sent")
    /\ handles' = [handles EXCEPT
                      ![s] = Append([@ EXCEPT ![h].st = "ended"],
                                    NewHandle(FALSE, handles[s][h].options, 0))]
    /\ UNCHANGED <<Idle, botIndex, spawnTimer, bots, proxy, username, bot>>

\* this.bot.on('end', ...)
EnhancedEnd(s, h) ==
    /\ h \in DOMAIN handles[s] /\ HasSocket(handles[s][h])
    /\ connected' = [connected EXCEPT ![s] = FALSE]
    /\ stats' = Inc(stats, "timeout")
    /\ handles' = SetHandle(s, h, Credit([handles[s][h] EXCEPT !.st = "ended"],
                                          stats, stats'))
    /\ UNCHANGED <<Idle, botIndex, spawnTimer, bots, proxy, username, bot>>

\* this.bot.on('error', ...): logs only
EnhancedError(s, h) ==
    /\ h \in DOMAIN handles[s] /\ Live(handles[s][h])
    /\ UNCHANGED vars

AttackStopTimer_Cancels(pending) == FALSE

\* stopAll leaves the timer that spawnBot armed as it is
AttackStopTimer(pending) == pending

\* CommandInterface.stopAll(): disconnect() of every member, which is
\* if (this.bot) this.bot.quit(), and this.bots = [].  The console starts
\* after main's first call of spawnBot has returned.
AttackStopAll ==
    /\ botIndex > 0 \/ ~spawnTimer
    /\ handles' = QuitMembers
    /\ bots' = <<>>
    /\ spawnTimer' = AttackStopTimer(spawnTimer)
    /\ UNCHANGED <<Idle, botIndex, proxy, username, connected, bot, stats>>

NextAttack ==
    \/ \E name \in Names : AttackSpawnBot(name)
    \/ AttackSpawnBotReturn
    \/ \E s \in Created : \E h \in DOMAIN handles[s] : EnhancedProxyConnected(s, h)
    \/ \E s \in Created : \E h \in DOMAIN handles[s] : EnhancedProxyFailed(s, h)
    \/ \E s \in Created : \E h \in DOMAIN handles[s] : EnhancedLogin(s, h)
    \/ \E s \in Created : \E h \in DOMAIN handles[s] : EnhancedKicked(s, h)
    \/ \E s \in Created : \E h \in DOMAIN handles[s] : EnhancedEnd(s, h)
    \/ \E s \in Created : \E h \in DOMAIN handles[s] : EnhancedError(s, h)
    \/ AttackStopAll

\* the run loop takes the spawn timer's callback when it is due
FairAttack ==
    /\ WF_vars(\E name \in Names : AttackSpawnBot(name))
    /\ WF_vars(AttackSpawnBotReturn)

SpecAttack == InitAttack /\ [][NextAttack]_vars /\ FairAttack

\* ------------------------------------------------------------ properties

Handles(s) == DOMAIN handles[s]

LiveHandles(s) == {h \in Handles(s) : Live(handles[s][h])}

\* steps in which handle h of session s delivers 'login', 'kicked', 'end',
\* or has its relay connect rejected
LoginStep(s, h) == handles[s][h].st = "connecting" /\ handles'[s][h].st = "active"
KickStep(s, h) == ~handles[s][h].kicked /\ handles'[s][h].kicked
EndStep(s, h) == handles[s][h].st # "ended" /\ handles'[s][h].st = "ended"
ProxyFailStep(s, h) == handles[s][h].st = "proxying" /\ handles'[s][h].st = "nosocket"

\* attemptReconnect calls made by the listeners of session s so far
ReconnectCalls(s) ==
    LET RECURSIVE Sum(_)
        Sum(n) == IF n = 0 THEN 0
                  ELSE handles[s][n].cnt["kicked"] + handles[s][n].cnt["timeout"] + Sum(n - 1)
    IN Sum(Len(handles[s]))

OutcomeSum(hd) == hd.cnt["joined"] + hd.cnt["kicked"] + hd.cnt["timeout"] + hd.cnt["failed"]

\* C1: every session has at most one live transport (a handle that has been
\* created and has not ended).
C1_OneLiveTransport == \A s \in Sessions : Cardinality(LiveHandles(s)) <= 1

\* C2: 0 <= reconnectAttempts <= maxReconnects for every session, and a
\* 'kicked' or 'end' listener that calls attemptReconnect with
\* reconnectAttempts = maxReconnects schedules no timer and changes neither
\* reconnectAttempts nor stats.reconnects.
C2_ReconnectCap ==
    [][\A s \in Sessions :
        /\ reconnectAttempts[s] \in 0..maxReconnects
        /\ reconnectAttempts'[s] \in 0..maxReconnects
        /\ \A h \in Handles(s) :
              ((KickStep(s, h) \/ EndStep(s, h)) /\ reconnectAttempts[s] = maxReconnects)
              => /\ reconnectAttempts'[s] = reconnectAttempts[s]
                 /\ stats'.reconnects = stats.reconnects
                 /\ reconnectTimers'[s] = reconnectTimers[s]]_vars

\* a session at the cap whose listeners have called attemptReconnect more
\* often than the cap allows reconnects, with no login in between
C2_Witness ==
    \E s \in Sessions :
        /\ reconnectAttempts[s] = maxReconnects
        /\ stats.reconnects = maxReconnects
        /\ stats.joined = 0
        /\ ReconnectCalls(s) > maxReconnects

\* C3: once isRunning is false no session creates a new transport.
C3_NoTransportAfterStop ==
    [][~isRunning => \A s \in Sessions : Len(handles'[s]) = Len(handles[s])]_vars

C5_KickCountedOnce ==
    \A s \in Sessions : \A h \in Handles(s) :
        LET c == handles[s][h].cnt IN
        handles[s][h].st = "ended" =>
            /\ c["failed"] + c["kicked"] + c["timeout"] = 1
            /\ handles[s][h].kicked => c["kicked"] = 1 /\ c["timeout"] = 0 /\ c["failed"] = 0

\* C6: reconnectAttempts, stats.reconnects and the pending reconnect timers
\* change only at an 'end' or 'kicked' delivered while isRunning is true by a
\* transport that stopAll has not quit (timers may also fire and be removed).
C6_NoReconnectOnShutdown ==
    [][\A s \in Sessions : \A h \in Handles(s) :
          ((EndStep(s, h) \/ KickStep(s, h)) /\ (~isRunning \/ handles[s][h].quit))
          => /\ reconnectAttempts'[s] = reconnectAttempts[s]
             /\ stats'.reconnects = stats.reconnects
             /\ reconnectTimers'[s] = reconnectTimers[s]]_vars

\* C7: right after stopAll isRunning is false and every live transport of
\* every session created so far has been asked to quit.
C7_StopAllQuitsAll ==
    [][StopAll =>
          /\ ~isRunning'
          /\ \A s \in Created : \A h \in Handles(s) :
                Live(handles'[s][h]) => handles'[s][h].quit]_vars

\* C8: in every state reached after a stopAll, calling stopAll (again)
\* leaves isRunning, the member list, every session's connected flag and
\* every transport as they are: it quits no transport.  stopAll never
\* touches a stats counter.
C8_StopAllIdempotent ==
    ~isRunning =>
        /\ StopAllRunning = isRunning
        /\ StopAllBots = bots
        /\ QuitMembers = handles
        /\ DisconnectMembers = connected

\* after a stopAll that had a transport to quit
C8_Witness ==
    /\ ~isRunning
    /\ \E s \in Sessions : \E h \in Handles(s) : handles[s][h].quit

\* C9: a failed connection attempt (the relay connect is rejected, or the
\* transport ends before login without a kick or a quit) ends the session's
\* lifecycle instance, raises failed by exactly 1 and no other outcome
\* counter, and runs the reconnect policy.
C9_ConnectFailureCounted ==
    [][\A s \in Sessions : \A h \in Handles(s) :
          (\/ ProxyFailStep(s, h)
           \/ (EndStep(s, h) /\ handles[s][h].st = "connecting"
               /\ ~handles[s][h].kicked /\ ~handles[s][h].quit))
          => /\ handles'[s][h].st = "ended"
             /\ stats'.failed = stats.failed + 1
             /\ stats'.timeout = stats.timeout
             /\ stats'.kicked = stats.kicked
             /\ stats'.joined = stats.joined
             /\ reconnectAttempts[s] < maxReconnects =>
                   /\ reconnectAttempts'[s] = reconnectAttempts[s] + 1
                   /\ reconnectTimers'[s] # reconnectTimers[s]]_vars

\* C10: when a transport delivers 'login' its session becomes connected,
\* stats.joined rises by exactly 1 and reconnectAttempts becomes 0.
C10_LoginResets ==
    [][\A s \in Sessions : \A h \in Handles(s) :
          LoginStep(s, h) =>
             /\ connected'[s]
             /\ stats'.joined = stats.joined + 1
             /\ reconnectAttempts'[s] = 0]_vars

\* a session logged in on its second transport after its first one failed
\* before login, i.e. with reconnectAttempts > 0 at the login
C10_Witness ==
    \E s \in Sessions :
        /\ Len(handles[s]) = 2
        /\ handles[s][1].st = "ended" /\ handles[s][1].cnt["joined"] = 0
        /\ handles[s][2].st = "active"
        /\ connected[s]
        /\ reconnectAttempts[s] = 0
        /\ stats.reconnects > 0

\* the session has entered Ended with reconnectAttempts = maxReconnects
CapEnded(s) == \E h \in Handles(s) : handles[s][h].capEnd

\* C11: a session that has entered Ended with reconnectAttempts =
\* maxReconnects creates no further transport, is not connected in any later
\* state, and is still a member of the pool in every later state in which
\* stopAll has not emptied the pool.
C11_CapIsFinal ==
    [][\A s \in Sessions :
          CapEnded(s) => /\ Len(handles'[s]) = Len(handles[s])
                         /\ ~connected'[s]
                         /\ isRunning' => s \in Members']_vars

\* C12: when the spawn scheduler has finished (no spawn timer is pending)
\* and isRunning is still true, the pool holds exactly maxBots sessions, the
\* i-th member being the session with index i, whatever their connection
\* state.
C12_PoolComplete ==
    (~spawnTimer /\ isRunning) =>
        /\ botIndex = maxBots
        /\ Len(bots) = maxBots
        /\ \A i \in 1..maxBots : bots[i] = i

\* the scheduler has finished a pool of MaxPoolBots sessions of which the
\* first is connected and the last is not
C12_Witness ==
    /\ ~spawnTimer /\ isRunning
    /\ maxBots = MaxPoolBots /\ Len(bots) = MaxPoolBots
    /\ connected[1] /\ ~connected[MaxPoolBots]

\* C13: while isRunning is false no session is created and the pool gains
\* no member; a spawn timer that fires then creates no session and is not
\* re-armed, and no spawn timer is armed again.
C13_NoSpawnAfterStop ==
    [][~isRunning =>
          /\ botIndex' = botIndex
          /\ Members' \subseteq Members
          /\ (SpawnBot \/ SpawnBotReturn) => ~spawnTimer'
          /\ ~spawnTimer => ~spawnTimer']_vars

\* stopAll came after the first spawn and before the last, and the spawn
\* timer has fired since
C13_Witness ==
    /\ ~isRunning /\ ~spawnTimer
    /\ 0 < botIndex /\ botIndex < maxBots

\* the sessions created so far that were given proxy x
AssignedTo(x) == {s \in Created : proxy[s] = x}

C19_NoProxiesNoAbort ==
    Len(workingProxies) = 0 =>
        /\ \A s \in Created : /\ proxy[s] = 0
                               /\ \A h \in Handles(s) :
                                     handles[s][h].st \notin {"proxying", "nosocket"}
        /\ (~spawnTimer /\ isRunning) => botIndex = maxBots

\* a run without proxies has spawned all its sessions and one is logged in
C19_Witness ==
    /\ Len(workingProxies) = 0
    /\ maxBots = MaxPoolBots /\ botIndex = maxBots /\ ~spawnTimer
    /\ \E s \in Created : \E h \in Handles(s) : handles[s][h].st = "active"

\* the members that are Active (connected = true)
ActiveMembers == {s \in Members : connected[s]}

\* handles' differs from handles by exactly one more chat, text, on the
\* current handle of every session in S
ChatOnEach(S, text) ==
    \A s \in Sessions : \A h \in Handles(s) :
        handles'[s][h] =
            IF s \in S /\ h = bot[s]
            THEN [handles[s][h] EXCEPT !.out = Append(@, text)]
            ELSE handles[s][h]

CurrentActive(s) == bot[s] # 0 /\ handles[s][bot[s]].st = "active"

\* C16: on a session whose current transport is not Active (none created
\* yet, still connecting, or ended), sendChat and executeCommand emit
\* nothing and leave the counters unchanged.
C16_NoChatUnlessActive ==
    \A s \in Sessions :
        ~CurrentActive(s) =>
            /\ sendChat(Untouched, s, Hello) = Untouched
            /\ botExecuteCommand(Untouched, s, SlashSpawn) = Untouched

\* the scripted reply of the first pattern that text matches, in the order
\* the listener tests them; <<>> when none matches
FirstReply(text) ==
    IF Includes(text, "/register") THEN <<"/register <password> <password>">>
    ELSE IF Includes(text, "/login") THEN <<"/login <password>">>
    ELSE IF Includes(text, "Please, login with the command") THEN <<"/login <password>">>
    ELSE IF Includes(text, "premium") THEN <<"/nlogin">>
    ELSE <<>>

\* C17: for every inbound chat message the session emits at most one
\* scripted reply, that of the first pattern the text matches, and nothing
\* else.
C17_OneReplyPerMessage ==
    [][\A s \in Sessions : \A h \in Handles(s) : \A text \in Texts :
          Message(s, h, text) =>
             /\ TotalChats' <= TotalChats + 1
             /\ handles'[s][bot[s]].out = handles[s][bot[s]].out \o FirstReply(text)]_vars

\* the candidates whose test has been started and has settled without the
\* candidate being verified
Failed ==
    {c \in DOMAIN verify.tests :
        /\ verify.tests[c] > 0 /\ c \notin verify.pending
        /\ \A i \in DOMAIN workingProxies : workingProxies[i] # c}

\* C20: a batch is started only when no test of the batch before it is
\* unsettled and, for every batch but the first, only while fewer than
\* wantCount proxies are verified (2 x maxBots in ass.js, maxBots in
\* botattack.js); the batches are started in order, each candidate's test is
\* started at most once, and a failed candidate is never tested again.
C20_BatchesInOrder ==
    [][/\ verify'.batch # verify.batch =>
            /\ verify'.batch = verify.batch + 1
            /\ verify.pending = {}
            /\ verify.batch > 0 => Len(workingProxies) < WantCount
       /\ \A c \in DOMAIN verify.tests :
            /\ verify'.tests[c] <= 1
            /\ c \in Failed => verify'.tests[c] = verify.tests[c]]_vars

\* the loop was left by the break after its second batch, with a third
\* batch never started and a failed candidate behind it
C20_Witness ==
    /\ verify.phase = "running"
    /\ verify.batch = 2
    /\ verify.batch < NumBatches(Len(verify.allProxies))
    /\ Len(workingProxies) = WantCount
    /\ Failed # {}

\* the elements of a sequence
Range(q) == {q[i] : i \in DOMAIN q}

\* C21: throughout verification every verified proxy is one of the
\* candidates, and no step of verification adds, removes or reorders
\* candidates.
C21_VerifiedAreCandidates ==
    /\ [](Range(workingProxies) \subseteq Range(verify.allProxies))
    /\ [][verify'.allProxies = verify.allProxies]_vars

\* verification is over with some candidates verified and some not
C21_Witness ==
    /\ verify.phase = "running"
    /\ workingProxies # <<>>
    /\ Range(workingProxies) # Range(verify.allProxies)
    /\ Failed # {}

\* C22: when collection is over every source has been asked, the candidate
\* list holds exactly the distinct well-formed ip:port strings that the
\* answering sources returned, each once, and stats.proxiesFound is their
\* number; a source whose fetch is rejected adds nothing and collection goes
\* on to the next source.
C22_CollectDistinct ==
    /\ [](verify.phase = "collected" =>
             /\ verify.source = MaxSources
             /\ Range(verify.allProxies) = verify.returned
             /\ Len(verify.allProxies) = Cardinality(verify.returned)
             /\ stats.proxiesFound = Cardinality(verify.returned))
    /\ [][FetchRejects =>
             /\ verify'.allProxies = verify.allProxies
             /\ verify'.phase = "fetching"
             /\ verify'.source = verify.source + 1]_vars

\* collection is over, one source failed, and another returned the same
\* address more often than once
C22_Witness ==
    /\ verify.phase = "collected"
    /\ verify.failed # {}
    /\ verify.allProxies # <<>>
    /\ verify.fetched > Len(verify.allProxies)

Counters ==
    {"sent", "joined", "kicked", "timeout", "failed", "reconnects", "messagesSent",
     "commandsExecuted"}

\* the steps of actualConnect, of options.connect's catch, and of the
\* 'login', 'kicked' and 'end' listeners
ConnectStep ==
    \E s \in Sessions :
        \/ PingReject(s, MaxPoolTransports)
        \/ JoinTimerFire(s, MaxPoolTransports)
        \/ \E h \in DOMAIN handles[s] : ProxyFailed(s, h)
LoginHandler == \E s \in Sessions : \E h \in DOMAIN handles[s] : Login(s, h)
KickedHandler == \E s \in Sessions : \E h \in DOMAIN handles[s] : Kicked(s, h)
EndHandler == \E s \in Sessions : \E h \in DOMAIN handles[s] : End(s, h)

\* the steps that may change counter f
Mutators(f) ==
    CASE f \in {"sent", "failed"} -> ConnectStep
      [] f = "joined" -> LoginHandler
      [] f = "kicked" -> KickedHandler
      [] f = "timeout" -> EndHandler
      [] f = "reconnects" -> KickedHandler \/ EndHandler
      [] f = "messagesSent" -> \E message \in Messages : Broadcast(message)
      [] f = "commandsExecuted" -> \E command \in Commands : ExecuteCommand(command)

\* C23: no step lowers one of the eight counters, and a step that changes
\* one is a step of the session handler that counts it (actualConnect or the
\* relay's failure for sent and failed, 'login' for joined, 'kicked' for
\* kicked, 'end' for timeout, 'kicked' or 'end' for reconnects) or of the
\* console's fan-out (broadcast for messagesSent, executeCommand for
\* commandsExecuted).
C23_CountersMonotone ==
    [][\A f \in Counters :
          /\ stats'[f] >= stats[f]
          /\ stats'[f] # stats[f] => Mutators(f)]_vars

\* a session was created, logged in, received a broadcast and was kicked
C23_Witness ==
    /\ stats.sent > 0 /\ stats.joined > 0 /\ stats.kicked > 0
    /\ stats.reconnects > 0 /\ stats.messagesSent > 0

\* a failure on session s: 'kicked', 'end' or 'error' on one of its
\* transports, its relay failing, or createBot throwing
FailureOn(s) ==
    \/ \E h \in DOMAIN handles[s] :
          Kicked(s, h) \/ End(s, h) \/ Error(s, h) \/ ProxyFailed(s, h)
    \/ /\ PingReject(s, MaxPoolTransports) \/ JoinTimerFire(s, MaxPoolTransports)
       /\ stats'.failed = stats.failed + 1

\* C24: a step that handles a kick, a disconnect, an error or a connect
\* failure of one session leaves every other session's connected flag,
\* reconnectAttempts, transport and pending timers as they were, and changes
\* neither the running flag nor the member list.
C24_FailureIsLocal ==
    [][\A s \in Sessions :
          FailureOn(s) =>
             /\ \A o \in Sessions \ {s} :
                   /\ connected'[o] = connected[o]
                   /\ reconnectAttempts'[o] = reconnectAttempts[o]
                   /\ bot'[o] = bot[o] /\ handles'[o] = handles[o]
                   /\ pings'[o] = pings[o] /\ joinTimers'[o] = joinTimers[o]
                   /\ reconnectTimers'[o] = reconnectTimers[o]
             /\ isRunning' = isRunning
             /\ bots' = bots]_vars

\* a session has been kicked and waits to reconnect while another member's
\* first connect is still pending
C24_Witness ==
    \E s \in Members : \E o \in Members \ {s} :
        /\ \E h \in DOMAIN handles[s] : handles[s][h].kicked
        /\ reconnectTimers[s] # EmptyBag
        /\ pings[o] + joinTimers[o] > 0

\* C25: the 'error' listener of a transport changes nothing: the session's
\* connected flag and reconnectAttempts, every counter of stats, the pending
\* ping, join and reconnect timers and the transport itself are after the
\* step what they were before it, so the session stays as it is until an
\* 'end' or 'kicked' event of its own arrives.
C25_ErrorChangesNothing ==
    [][\A s \in Sessions : \A h \in DOMAIN handles[s] :
          Error(s, h) =>
             /\ connected' = connected
             /\ reconnectAttempts' = reconnectAttempts
             /\ stats' = stats
             /\ pings' = pings /\ joinTimers' = joinTimers
             /\ reconnectTimers' = reconnectTimers
             /\ bot' = bot /\ handles' = handles]_vars

\* an Active session on whose transport 'error' can be delivered: the state
\* after the event is this same state
C25_Witness ==
    \E s \in Members :
        /\ connected[s] /\ bot[s] # 0
        /\ handles[s][bot[s]].st = "active"
        /\ ENABLED Error(s, bot[s])

\* C26: in a run where every connect attempt succeeds and no session is
\* kicked or disconnected, the pool spawned for maxBots sessions comes to
\* stay in a state where stats.joined and stats.sent equal maxBots and the
\* member list holds exactly maxBots sessions, all of them Active.
C26_AllJoin ==
    <>[](/\ stats.joined = maxBots
         /\ stats.sent = maxBots
         /\ Len(bots) = maxBots /\ Cardinality(Members) = maxBots
         /\ \A s \in Members : connected[s] /\ CurrentActive(s))

\* the largest pool has joined in full, partly through a relay
C26_Witness ==
    /\ maxBots = MaxPoolBots
    /\ stats.joined = maxBots /\ stats.sent = maxBots
    /\ Cardinality(Members) = maxBots
    /\ \A s \in Members : connected[s] /\ CurrentActive(s)
    /\ \E s \in Members : proxy[s] # 0

\* the lines of Lines whose first word is not a label of the switch: free
\* text, and lines that start with the prefix
FreeLines == {Hello, HelloSlashSpawn}
PrefixedLines == {SlashSpawn, SlashSayHello}

\* C27: a console line whose first word is no built-in command makes one
\* call: a line that starts with '/' is dispatched whole, prefix included
\* (each Active member's transport gets the line once and commandsExecuted
\* counts it, messagesSent does not move), any other line is broadcast whole
\* (each Active member's transport gets it once and messagesSent counts it,
\* commandsExecuted does not move).
C27_RoutedOnce ==
    [][/\ \A input \in PrefixedLines :
             ConsoleLine(input, MaxChats) =>
                /\ processCommand(input) = Call("executeCommand", input)
                /\ ChatOnEach(ActiveMembers, input)
                /\ stats' = [stats EXCEPT
                                !.commandsExecuted = @ + Cardinality(ActiveMembers)]
       /\ \A input \in FreeLines :
             ConsoleLine(input, MaxChats) =>
                /\ processCommand(input) = Call("broadcast", input)
                /\ ChatOnEach(ActiveMembers, input)
                /\ stats' = [stats EXCEPT
                                !.messagesSent = @ + Cardinality(ActiveMembers)]]_vars

\* the Active session after the line "/say hello": its transport carries
\* the whole line, counted as a command
C27_Witness ==
    /\ stats.commandsExecuted = 1 /\ stats.messagesSent = 0
    /\ \E s \in Members :
          connected[s] /\ handles[s][bot[s]].out = <<SlashSayHello>>

\* q is what is left of w after some of its first elements have been taken
IsSuffix(q, w) == \E k \in 0..Len(w) : q = SubSeq(w, k + 1, Len(w))

\* the positions in macro w of the elements of out that are steps of w
RECURSIVE StepsOf(_, _)
StepsOf(out, w) ==
    IF out = <<>> THEN <<>>
    ELSE LET rest == StepsOf(SubSeq(out, 1, Len(out) - 1), w)
             last == out[Len(out)]
         IN IF \E k \in DOMAIN w : w[k] = last
            THEN Append(rest, CHOOSE k \in DOMAIN w : w[k] = last)
            ELSE rest

Increasing(q) == \A i, j \in DOMAIN q : i < j => q[i] < q[j]

\* C28: executeMacro of a known name arms the macro's steps, all of them in
\* their order; the steps still pending are always the rest of the macro;
\* each firing takes the first pending step, dispatches it if it starts with
\* '/' and broadcasts it otherwise, to every member Active at that moment;
\* while steps are pending the console takes further lines; and a line that
\* names no macro changes nothing.  While one macro has been played, the
\* steps a transport has received are in the macro's order, none twice.
C28_MacroReplay ==
    /\ [](/\ \A p \in DOMAIN macroTimers :
                \E name \in MacroNames : IsSuffix(macroTimers[p], Macros(name))
          /\ TotalChats < MaxMacroChats => ENABLED ConsoleLine(Hello, MaxMacroChats)
          /\ Len(macroTimers) = 1 =>
                \A s \in Sessions : \A h \in DOMAIN handles[s] :
                    \A name \in MacroNames :
                        IsSuffix(macroTimers[1], Macros(name)) =>
                            Increasing(StepsOf(handles[s][h].out, Macros(name))))
    /\ [][/\ ConsoleLine(MacroJoinserver, MaxMacroChats) =>
                macroTimers' = Append(macroTimers, <<ServerSurvival, ServerSkyblock>>)
          /\ ConsoleLine(MacroSpam, MaxMacroChats) =>
                macroTimers' = Append(macroTimers, <<HelloBang, HowAreYou, NiceServer>>)
          /\ \A input \in {MacroOfSpam, Macro} :
                ConsoleLine(input, MaxMacroChats) => UNCHANGED vars
          /\ \A p \in DOMAIN macroTimers :
                MacroTimerFire(p, MaxMacroChats) =>
                   LET cmd == Head(macroTimers[p])
                       n == Cardinality(ActiveMembers)
                   IN /\ macroTimers' = [macroTimers EXCEPT ![p] = Tail(@)]
                      /\ ChatOnEach(ActiveMembers, cmd)
                      /\ stats' = IF cmd[1] = "/"
                                  THEN [stats EXCEPT !.commandsExecuted = @ + n]
                                  ELSE [stats EXCEPT !.messagesSent = @ + n]]_vars

\* the joinserver macro has played to its end on an Active session, and the
\* line "hello" typed between its two steps was broadcast between them
C28_Witness ==
    /\ macroTimers = <<<<>>>>
    /\ stats.commandsExecuted = 2 /\ stats.messagesSent = 1
    /\ \E s \in Members :
          connected[s] /\ handles[s][bot[s]].out = <<ServerSurvival, Hello, ServerSkyblock>>

\* C29: the member list holds the indices in the order of creation, each
\* once and none beyond the number of sessions created; a step that adds a
\* member gives it the index botIndex + 1 and raises botIndex by one; no
\* step lowers botIndex, stopAll included, so no index is given twice; and
\* no step changes the index of a member that stays in the list.
C29_IndexStable ==
    /\ [](/\ Increasing(bots)
          /\ \A k \in DOMAIN bots : bots[k] \in 1..botIndex)
    /\ [][/\ botIndex' >= botIndex
          /\ \A k \in DOMAIN bots \cap DOMAIN bots' : bots'[k] = bots[k]
          /\ Len(bots') > Len(bots) =>
                /\ bots' = Append(bots, botIndex + 1)
                /\ botIndex' = botIndex + 1]_vars

\* stopAll has emptied a pool of two sessions, which keep their indices 1
\* and 2: the counter still stands at 2
C29_Witness ==
    /\ ~isRunning /\ bots = <<>>
    /\ botIndex = 2
    /\ pings[1] + joinTimers[1] + Len(handles[1]) > 0
    /\ pings[2] + joinTimers[2] + Len(handles[2]) > 0

\* C30: a step that arms a reconnect timer of a session raises its
\* reconnectAttempts by one and gives the timer the delay
\* min(5000 * reconnectAttempts, 30000) of the raised count: one of 5000,
\* 10000 and 15000, above the delay of the failure before it in the same
\* run and not above 30000.
C30_ReconnectDelay ==
    [][\A s \in Sessions : \A d \in BagToSet(reconnectTimers'[s]) :
          CopiesIn(d, reconnectTimers'[s]) > CopiesIn(d, reconnectTimers[s]) =>
             /\ reconnectAttempts'[s] = reconnectAttempts[s] + 1
             /\ d = IF 5000 * reconnectAttempts'[s] < 30000
                    THEN 5000 * reconnectAttempts'[s] ELSE 30000
             /\ d \in {5000, 10000, 15000}
             /\ d > 5000 * reconnectAttempts[s]
             /\ d <= 30000]_vars

\* a session after its third failure in a row: the timer of 15000 ms is
\* pending
C30_Witness ==
    \E s \in Members :
        /\ reconnectAttempts[s] = 3
        /\ BagIn(15000, reconnectTimers[s])

\* C31: every transport of a session was created with the session's
\* username and proxy, and no step changes the username or the proxy of a
\* session that has been created.
C31_IdentityFixed ==
    /\ [](\A s \in Sessions : \A h \in DOMAIN handles[s] :
             /\ handles[s][h].options.username = username[s]
             /\ handles[s][h].options.proxy = proxy[s])
    /\ [][\A s \in Created :
             username'[s] = username[s] /\ proxy'[s] = proxy[s]]_vars

\* a session named Ghost2 that goes through a relay has made its second
\* transport, after a reconnect
C31_Witness ==
    \E s \in Created :
        /\ username[s] = "Ghost2" /\ proxy[s] # 0
        /\ Len(handles[s]) = 2
        /\ stats.reconnects > 0

\* C32: every session has at most one reconnect timer pending, and the
\* listeners of one transport have called attemptReconnect at most once: a
\* kick followed by the same transport's end does not schedule two
\* reconnects.
C32_OneReconnectPerTransport ==
    \A s \in Sessions :
        /\ BagCardinality(reconnectTimers[s]) <= 1
        /\ \A h \in Handles(s) :
              handles[s][h].cnt["kicked"] + handles[s][h].cnt["timeout"] <= 1

\* 'login', 'kicked' or 'end' delivered by a handle of session s that
\* this.bot no longer refers to
LateEvent(s) ==
    \E h \in Handles(s) :
        /\ h # bot[s]
        /\ Login(s, h) \/ Kicked(s, h) \/ End(s, h)

C33_FlagFollowsCurrent == \A s \in Sessions : connected[s] => CurrentActive(s)

C33_LateEventsInert ==
    [][\A s \in Sessions :
          LateEvent(s) => /\ connected'[s] = connected[s]
                          /\ reconnectAttempts'[s] = reconnectAttempts[s]
                          /\ stats' = stats]_vars

\* C33: an event delivered by a transport the session has replaced changes
\* neither connected, nor reconnectAttempts, nor any counter, and a session
\* whose connected flag is true has a current handle that has logged in and
\* has not ended.
C33_ReplacedTransportSilent == []C33_FlagFollowsCurrent /\ C33_LateEventsInert

\* the transports session s created while it had seen k logins
CreatedAfter(s, k) == {h \in Handles(s) : handles[s][h].logins = k}

\* C34: from its creation to its first login, and between any two
\* consecutive logins, a session creates at most 1 + maxReconnects
\* transports.
C34_TransportsPerRun ==
    \A s \in Sessions : \A k \in 0..MaxStormTransports :
        Cardinality(CreatedAfter(s, k)) <= 1 + maxReconnects

\* nothing of the program is pending: no spawn timer, no ping, no join
\* timer and no reconnect timer
Quiescent ==
    /\ ~spawnTimer
    /\ \A s \in Sessions :
          /\ pings[s] = 0 /\ joinTimers[s] = 0
          /\ reconnectTimers[s] = EmptyBag

\* C35: when no transport ever logs in, every run in which due timers fire
\* and pings settle reaches a state after which no session has a reconnect
\* timer, a ping or a join timer pending, so that no further transport is
\* created; no session creates more than 1 + maxReconnects transports.
C35_PoolQuiesces ==
    /\ <>[]Quiescent
    /\ [](\A s \in Sessions : Len(handles[s]) <= 1 + maxReconnects)

\* a quiet session that has used up its reconnects: four transports, all
\* ended, none logged in
C35_Witness ==
    /\ Quiescent /\ isRunning
    /\ \E s \in Created :
          /\ Len(handles[s]) = 1 + maxReconnects
          /\ reconnectAttempts[s] = maxReconnects
          /\ \A h \in Handles(s) : handles[s][h].st = "ended"

\* C36: stats.sent never exceeds the number of sessions created plus
\* stats.reconnects.
C36_SentBounded == stats.sent <= botIndex + stats.reconnects

\* the bound is met after a reconnect: the session's first transport and the
\* one made by its reconnect timer have both been counted in stats.sent
C36_Witness ==
    /\ stats.reconnects > 0
    /\ stats.sent = botIndex + stats.reconnects

\* C37: once stopAll has run the member list is empty in every later state;
\* every later broadcast, dispatch and macro step passes no text to any
\* transport and leaves messagesSent and commandsExecuted as they are, and
\* `info <i>` finds no session, whatever i is.
C37_StoppedPoolEmpty ==
    /\ [](~isRunning =>
             /\ bots = <<>>
             /\ \A input \in InfoLines : showBotInfo(processCommand(input).arg) = 0)
    /\ [][~isRunning =>
             /\ stats'.messagesSent = stats.messagesSent
             /\ stats'.commandsExecuted = stats.commandsExecuted
             /\ \A s \in Sessions : \A h \in Handles(s) :
                   handles'[s][h].out = handles[s][h].out]_vars

\* after stopAll a macro is part played, the session created before the stop
\* has logged in since, and nothing was sent
C37_Witness ==
    /\ ~isRunning /\ botIndex = 1 /\ connected[1]
    /\ \E p \in DOMAIN macroTimers :
          macroTimers[p] # <<>> /\ Len(macroTimers[p]) < Len(Macros(Name_spam))
    /\ stats.messagesSent = 0 /\ stats.commandsExecuted = 0

\* C38: in botattack.js every session that has been created has exactly one
\* transport, and stats.sent does not exceed the number of sessions created.
C38_ExactlyOneTransport ==
    /\ \A s \in Created : Len(handles[s]) = 1
    /\ stats.sent <= botIndex

\* C38, amended: in botattack.js a session has at most one transport in its
\* lifetime, whatever its transport delivers (after kicked or end it does
\* not connect again), and none when createBot threw in its constructor;
\* stats.sent is the number of sessions that have a transport, so it never
\* exceeds the number of sessions created.
C38_AtMostOneTransport ==
    /\ \A s \in Sessions : Len(handles[s]) <= 1
    /\ stats.sent = Cardinality({s \in Created : Len(handles[s]) = 1})
    /\ stats.sent <= botIndex

\* spawning is over; one session's only transport was kicked and has ended,
\* another session's createBot threw
C38_Witness ==
    /\ ~spawnTimer
    /\ \E s \in Created :
          /\ Len(handles[s]) = 1
          /\ handles[s][1].kicked /\ handles[s][1].st = "ended"
    /\ \E s \in Created : Len(handles[s]) = 0

\* C39: in botattack.js the spawn scheduler ends with exactly maxBots
\* sessions created, whether or not stopAll runs while it is spawning:
\* stopAll empties the member list and leaves the spawn timer and the count
\* of sessions as they are, and every session created is appended to the
\* member list as it is then.
C39_SpawnsAllAnyway ==
    /\ <>[](botIndex = maxBots /\ ~spawnTimer)
    /\ [](botIndex <= maxBots)
    /\ [][AttackStopAll => /\ bots' = <<>>
                           /\ spawnTimer' = spawnTimer
                           /\ botIndex' = botIndex]_vars
    /\ [][botIndex' # botIndex => /\ botIndex' = botIndex + 1
                                  /\ bots' = Append(bots, botIndex')]_vars

\* spawning is over and stopAll ran in the middle of it: the member list
\* holds the last session only
C39_Witness ==
    /\ ~spawnTimer /\ botIndex = maxBots /\ maxBots = MaxPoolBots
    /\ bots = <<MaxPoolBots>>

====
